---- MODULE Spec2Model ----
(***************************************************************************)
(* NCAA wrestling draft tracker: the results parser, the wrestler matcher  *)
(* and the scorer, as a state machine over one scoring run.                *)
(*                                                                         *)
(* Text is kept as text: a Python str is a TLA+ string, and the string     *)
(* operators below (find, in, startswith, strip, lower, split) act on its  *)
(* characters through Len, \o and SubSeq.                                   *)
(*                                                                         *)
(* Points are counted in half points (1.0 -> 2, 0.5 -> 1, 1.5 -> 3), which *)
(* is exact for every value the program handles.                           *)
(***************************************************************************)
EXTENDS Integers, Sequences, FiniteSets, TLC

----------------------------------------------------------------------------
(* Python str operations                                                   *)

None == "<None>"

MinOf(S) == CHOOSE x \in S : \A y \in S : x <= y

\* s[i-1:j], clipped to the string as a Python slice is
Slice(s, i, j) ==
    LET a == IF i < 1 THEN 1 ELSE i
        b == IF j > Len(s) THEN Len(s) ELSE j
    IN  IF a > b THEN "" ELSE SubSeq(s, a, b)

CharAt(s, i) == Slice(s, i, i)

\* s.find(pat, from), 1-based; 0 when pat does not occur at or after from
Find(pat, s, from) ==
    LET I == {i \in (IF from < 1 THEN 1 ELSE from)..(Len(s) - Len(pat) + 1) :
                SubSeq(s, i, i + Len(pat) - 1) = pat}
    IN  IF I = {} THEN 0 ELSE MinOf(I)

\* pat in s
Contains(pat, s) == Find(pat, s, 1) # 0

\* s.startswith(pat)
StartsWith(s, pat) == Len(pat) <= Len(s) /\ Slice(s, 1, Len(pat)) = pat

\* s.strip()
RECURSIVE StripLeft(_)
StripLeft(s) ==
    IF s # "" /\ SubSeq(s, 1, 1) = " " THEN StripLeft(SubSeq(s, 2, Len(s))) ELSE s

RECURSIVE StripRight(_)
StripRight(s) ==
    IF s # "" /\ SubSeq(s, Len(s), Len(s)) = " "
    THEN StripRight(SubSeq(s, 1, Len(s) - 1)) ELSE s

Strip(s) == StripRight(StripLeft(s))

UpperAlphabet == "ABCDEFGHIJKLMNOPQRSTUVWXYZ"
LowerAlphabet == "abcdefghijklmnopqrstuvwxyz"

LowerOf ==
    [c \in {SubSeq(UpperAlphabet, i, i) : i \in 1..Len(UpperAlphabet)} |->
        SubSeq(LowerAlphabet, Find(c, UpperAlphabet, 1), Find(c, UpperAlphabet, 1))]

LowerChar(c) == IF c \in DOMAIN LowerOf THEN LowerOf[c] ELSE c

\* s.lower()
RECURSIVE Lower(_)
Lower(s) ==
    IF s = "" THEN ""
    ELSE LowerChar(SubSeq(s, 1, 1)) \o Lower(SubSeq(s, 2, Len(s)))

\* re.sub(r'\s+', ' ', s)
RECURSIVE CollapseSpaces(_)
CollapseSpaces(s) ==
    IF Len(s) < 2 THEN s
    ELSE IF SubSeq(s, 1, 2) = "  " THEN CollapseSpaces(SubSeq(s, 2, Len(s)))
    ELSE SubSeq(s, 1, 1) \o CollapseSpaces(SubSeq(s, 2, Len(s)))

\* the character class of the second re.sub of standardize_text: apostrophe,
\* double quote, comma, period, parentheses, hyphen (and the backtick, which
\* no text of this model contains)
RemovedChars == {"'", "\"", ",", ".", "(", ")", "-"}

RECURSIVE RemoveChars(_)
RemoveChars(s) ==
    IF s = "" THEN ""
    ELSE (IF SubSeq(s, 1, 1) \in RemovedChars THEN "" ELSE SubSeq(s, 1, 1))
         \o RemoveChars(SubSeq(s, 2, Len(s)))

\* s.split(): the blank-separated words of s, in order
RECURSIVE Split(_)
Split(s) ==
    LET t  == Strip(s)
        sp == Find(" ", t, 1)
    IN  IF t = "" THEN <<>>
        ELSE IF sp = 0 THEN <<t>>
        ELSE <<Slice(t, 1, sp - 1)>> \o Split(Slice(t, sp + 1, Len(t)))

Digits == "0123456789"
IsDigit(c) == c \in {"0", "1", "2", "3", "4", "5", "6", "7", "8", "9"}

\* the length of the run of digits of s that starts at i (\d+ is greedy)
RECURSIVE DigitRun(_, _)
DigitRun(s, i) == IF IsDigit(CharAt(s, i)) THEN 1 + DigitRun(s, i + 1) ELSE 0

\* int(s) for a string of digits
RECURSIVE ToInt(_)
ToInt(s) ==
    IF s = "" THEN 0
    ELSE 10 * ToInt(Slice(s, 1, Len(s) - 1))
         + (Find(Slice(s, Len(s), Len(s)), Digits, 1) - 1)

\* the first i in 1..Len(seq) with P(seq[i]), 0 when there is none
FirstIndex(seq, P(_)) ==
    LET I == {i \in 1..Len(seq) : P(seq[i])}
    IN  IF I = {} THEN 0 ELSE MinOf(I)

----------------------------------------------------------------------------
(* config.py                                                               *)

PROBLEM_WRESTLERS ==
    << "Smith", "Knox", "Koderhandt", "Composto", "Johnson", "Thomson",
       "Thompson", "Thomsen", "Voelker", "Kueter", "Keuter", "Scott",
       "Edmond", "O'Toole" >>

\* PLACEMENT_POINTS.get(placement, 0), in half points
PlacementPoints(placement) ==
    CASE placement = 1 -> 32
      [] placement = 2 -> 24
      [] placement = 3 -> 20
      [] placement = 4 -> 18
      [] placement = 5 -> 14
      [] placement = 6 -> 12
      [] placement = 7 -> 8
      [] placement = 8 -> 6
      [] OTHER -> 0

SCHOOL_MAPPINGS ==
    << <<"virginia tech", "virginia tech">>,
       <<"viginia tech", "virginia tech">>,
       <<"vt", "virginia tech">>,
       <<"virginia", "virginia">>,
       <<"uva", "virginia">>,
       <<"penn state", "penn state">>,
       <<"psu", "penn state">>,
       <<"ohio state", "ohio state">>,
       <<"osu", "ohio state">>,
       <<"unc", "north carolina">>,
       <<"north carolina", "north carolina">>,
       <<"iowa state", "iowa state">>,
       <<"isu", "iowa state">>,
       <<"south dakota state", "south dakota state">>,
       <<"south dakota", "south dakota">>,
       <<"cal poly", "cal poly">>,
       <<"ncsu", "nc state">>,
       <<"nc state", "nc state">>,
       <<"oklahome state", "oklahoma state">>,
       <<"pittburgh", "pittsburgh">>,
       <<"califoria bakersfield", "csu bakersfield">>,
       <<"bakersfield", "csu bakersfield">>,
       <<"csub", "csu bakersfield">>,
       <<"northern", "northern">>,
       <<"pennsylvania", "pennsylvania">>,
       <<"penn", "pennsylvania">> >>

\* DIRECT_NAME_OVERRIDES: key, (name, school, team)
DIRECT_NAME_OVERRIDES ==
    << <<"garrett thompson", "Garrett Thomson", "Ohio", "Lucas G">>,
       <<"caleb smith", "Caleb Smith", "Nebraska", "Big Cat">>,
       <<"ben kueter", "Ben Keuter", "Iowa", "Ty Walters">> >>

WEIGHT_CLASSES ==
    {"125", "133", "141", "149", "157", "165", "174", "184", "197", "285"}

----------------------------------------------------------------------------
(* utils/text_utils.py                                                     *)

standardize_text(text) ==
    IF text = "" \/ text = None THEN ""
    ELSE LET t1 == Strip(Lower(text))
             t2 == CollapseSpaces(t1)
             t3 == RemoveChars(t2)
             m  == FirstIndex(SCHOOL_MAPPINGS, LAMBDA e : e[1] = t3)
         IN  IF m # 0 THEN SCHOOL_MAPPINGS[m][2] ELSE t3

standardize_wrestler_name(name) ==
    LET n == standardize_text(name)
    IN  IF n \in {"thomson", "thompson"} THEN "thoms"
        ELSE IF n \in {"keuter", "kueter"} THEN "kuet"
        ELSE n

----------------------------------------------------------------------------
(* parsers/match_parser.py                                                 *)

\* ROUND_MAPPING, in the dict's insertion order; advancement in half points
ROUND_MAPPING ==
    << [name |-> "Prelim", bracket |-> "Champ", round_num |-> 0, full_round |-> "Prelim", advancement_points |-> 2],
       [name |-> "Pig Tails", bracket |-> "Champ", round_num |-> 0, full_round |-> "Pig Tails", advancement_points |-> 2],
       [name |-> "Champ. Round 1", bracket |-> "Champ", round_num |-> 1, full_round |-> "Champ. R1", advancement_points |-> 2],
       [name |-> "Champ Round 1", bracket |-> "Champ", round_num |-> 1, full_round |-> "Champ. R1", advancement_points |-> 2],
       [name |-> "Champ. Round 2", bracket |-> "Champ", round_num |-> 2, full_round |-> "Champ. R2", advancement_points |-> 2],
       [name |-> "Champ Round 2", bracket |-> "Champ", round_num |-> 2, full_round |-> "Champ. R2", advancement_points |-> 2],
       [name |-> "Quarterfinal", bracket |-> "Champ", round_num |-> 3, full_round |-> "Quarters", advancement_points |-> 2],
       [name |-> "Semifinal", bracket |-> "Champ", round_num |-> 4, full_round |-> "Semis", advancement_points |-> 2],
       [name |-> "1st Place Match", bracket |-> "Champ", round_num |-> 5, full_round |-> "Finals", advancement_points |-> 0],
       [name |-> "Championships", bracket |-> "Champ", round_num |-> 5, full_round |-> "Finals", advancement_points |-> 0],
       [name |-> "Consolation Pig Tails", bracket |-> "Cons", round_num |-> 0, full_round |-> "Cons. Pig Tails", advancement_points |-> 1],
       [name |-> "Cons. Pig Tails", bracket |-> "Cons", round_num |-> 0, full_round |-> "Cons. Pig Tails", advancement_points |-> 1],
       [name |-> "Cons. Round 1", bracket |-> "Cons", round_num |-> 1, full_round |-> "Cons. R1", advancement_points |-> 1],
       [name |-> "Cons. Round 2", bracket |-> "Cons", round_num |-> 2, full_round |-> "Cons. R2", advancement_points |-> 1],
       [name |-> "Cons. Round 3", bracket |-> "Cons", round_num |-> 3, full_round |-> "Cons. R3", advancement_points |-> 1],
       [name |-> "Cons. Round 4", bracket |-> "Cons", round_num |-> 4, full_round |-> "Cons. R4", advancement_points |-> 1],
       [name |-> "Cons. Round 5", bracket |-> "Cons", round_num |-> 5, full_round |-> "Cons. R5", advancement_points |-> 1],
       [name |-> "Cons. Semi", bracket |-> "Cons", round_num |-> 6, full_round |-> "Cons. Semis", advancement_points |-> 1],
       [name |-> "3rd Place Match", bracket |-> "Place", round_num |-> 7, full_round |-> "3rd Place", advancement_points |-> 0],
       [name |-> "5th Place Match", bracket |-> "Place", round_num |-> 7, full_round |-> "5th Place", advancement_points |-> 0],
       [name |-> "7th Place Match", bracket |-> "Place", round_num |-> 7, full_round |-> "7th Place", advancement_points |-> 0] >>

\* ROUND_MAPPING[key] as an index; 0 when key is no key of the dict
RoundKey(key) == FirstIndex(ROUND_MAPPING, LAMBDA r : r.name = key)

\* parse_match_result, lines 61-63: the module global current_section after a
\* call with this section_header
GlobalSectionAfter(section_header, global_section) ==
    IF section_header # None /\ section_header # "" THEN section_header
    ELSE global_section

\* parse_match_result, lines 83-86: the first round of ROUND_MAPPING, from
\* index i on, whose name the line contains; 0 when the loop ends without one
RECURSIVE RoundScan(_, _)
RoundScan(match_text, i) ==
    IF i > Len(ROUND_MAPPING) THEN 0
    ELSE IF Contains(ROUND_MAPPING[i].name, match_text)
            \/ StartsWith(match_text, ROUND_MAPPING[i].name) THEN i
    ELSE RoundScan(match_text, i + 1)

\* parse_match_result, lines 70-91: the index of round_info in ROUND_MAPPING,
\* 0 for None; section is the module global current_section
RoundInfo(match_text, section) ==
    IF StartsWith(match_text, "Prelim -")
    THEN IF section = "Consolation Pig Tails"
         THEN RoundKey("Consolation Pig Tails")
         ELSE RoundKey("Prelim")
    ELSE LET i == RoundScan(match_text, 1)
         IN  IF i # 0 THEN i
             ELSE IF section # None /\ section # "" /\ RoundKey(section) # 0
             THEN RoundKey(section)
             ELSE 0

\* _parse_win_type: <<win_type, bonus_points>>, bonus in half points
ParseWinType(win_type_full, match_text) ==
    IF Contains("tech fall", win_type_full) THEN <<"TF", 3>>
    ELSE IF Contains("major decision", win_type_full) THEN <<"MD", 2>>
    ELSE IF (Contains("fall", win_type_full) \/ Contains("pin", win_type_full))
            /\ ~Contains("tech fall", win_type_full) THEN <<"Fall", 4>>
    ELSE IF \E x \in {"default", "forfeit", "disqualification", "misconduct"} :
               Contains(x, win_type_full) THEN <<"Def/DQ", 4>>
    ELSE IF Contains("sudden victory", win_type_full)
            \/ StartsWith(win_type_full, "sudden victory") THEN <<"SV", 0>>
    ELSE IF Contains("tie breaker", win_type_full)
            \/ StartsWith(win_type_full, "tie breaker") THEN <<"TB", 0>>
    ELSE IF Contains("decision", win_type_full) THEN <<"Dec", 0>>
    ELSE IF Contains("sudden victory", match_text) \/ Contains(" SV-1 ", match_text)
            \/ Contains(" SV-2 ", match_text) \/ Contains("(SV-1", match_text)
         THEN <<"SV", 0>>
    ELSE IF Contains("tie breaker", match_text) \/ Contains(" TB-1 ", match_text)
            \/ Contains(" TB-2 ", match_text) \/ Contains("(TB-1", match_text)
         THEN <<"TB", 0>>
    ELSE <<"Other", 0>>

\* the length of the run of blanks of s that starts at i (\s+ is greedy)
RECURSIVE SpaceRun(_, _)
SpaceRun(s, i) == IF CharAt(s, i) = " " THEN 1 + SpaceRun(s, i + 1) ELSE 0

\* the groups of the generic pattern of _parse_match_with_pattern (line 124),
\* matched leftmost and lazily: the first hyphen, the first " (" and ")" after
\* it, the first "won by"/"won in" after that, the first " over ", the first
\* " (" and ")" after it. ok is FALSE when re.search returns None.
MatchGroups(t) ==
    LET h  == Find("-", t, 1)
        p  == IF h = 0 THEN 0 ELSE Find(" (", t, h + 1)
        c  == IF p = 0 THEN 0 ELSE Find(")", t, p + 2)
        W  == IF c = 0 THEN {}
              ELSE {i \in (c + 1)..Len(t) :
                      /\ Slice(t, i, i + 2) = "won"
                      /\ SpaceRun(t, i + 3) > 0
                      /\ Slice(t, i + 3 + SpaceRun(t, i + 3),
                                   i + 4 + SpaceRun(t, i + 3)) \in {"by", "in"}
                      /\ SpaceRun(t, i + 5 + SpaceRun(t, i + 3)) > 0}
        w  == IF W = {} THEN 0 ELSE MinOf(W)
        g  == IF w = 0 THEN 0 ELSE w + 5 + SpaceRun(t, w + 3)
        o  == IF g = 0 THEN 0 ELSE Find(" over ", t, g)
        p2 == IF o = 0 THEN 0 ELSE Find(" (", t, o + 6)
        c2 == IF p2 = 0 THEN 0 ELSE Find(")", t, p2 + 2)
    IN  IF c2 = 0 THEN [ok |-> FALSE]
        ELSE [ok |-> TRUE,
              g1 |-> Slice(t, h + 1, p - 1),
              g2 |-> Slice(t, p + 2, c - 1),
              g3 |-> Slice(t, g, o - 1),
              g4 |-> Slice(t, o + 6, p2 - 1),
              g5 |-> Slice(t, p2 + 2, c2 - 1)]

\* the end of a match of \s+(\d+)-\d+\s+ that starts at i, 0 when none
RecordEnd(t, i) ==
    LET s1 == SpaceRun(t, i)
        d1 == DigitRun(t, i + s1)
        h  == i + s1 + d1
        d2 == DigitRun(t, h + 1)
        s2 == SpaceRun(t, h + 1 + d2)
    IN  IF s1 > 0 /\ d1 > 0 /\ CharAt(t, h) = "-" /\ d2 > 0 /\ s2 > 0
        THEN h + 1 + d2 + s2 ELSE 0

\* seed_pattern (lines 141-145): group 2 of the leftmost match of
\* \(.*?\)\s+(\d+)-\d+\s+(?:\(#(\d+)\))? as a digit string, "" when there is
\* no match or the optional group did not take part
SeedDigits(t) ==
    LET p0 == Find("(", t, 1)
        Q  == IF p0 = 0 THEN {}
              ELSE {q \in (p0 + 1)..Len(t) :
                      CharAt(t, q) = ")" /\ RecordEnd(t, q + 1) # 0}
        e  == IF Q = {} THEN 0 ELSE RecordEnd(t, MinOf(Q) + 1)
        d  == IF e = 0 THEN 0 ELSE DigitRun(t, e + 2)
    IN  IF e # 0 /\ Slice(t, e, e + 1) = "(#" /\ d > 0 /\ CharAt(t, e + 2 + d) = ")"
        THEN Slice(t, e + 2, e + 1 + d) ELSE ""

\* the ordinal of a final or a 3rd place match only
PlacementNumOfMedals(match_text) ==
    IF Contains("1st", match_text) THEN 1
    ELSE IF Contains("3rd", match_text) THEN 3 ELSE 0

\* lines 153-157: int(place[0]) of the first ordinal found in the line, 0 for None
PlacementNum(match_text) ==
    LET places == <<"1st", "2nd", "3rd", "4th", "5th", "6th", "7th", "8th">>
    IN  FirstIndex(places, LAMBDA pl : Contains(pl, match_text))

NoMatchInfo == [parsed |-> FALSE]

\* _parse_match_with_pattern, lines 147-245, once the pattern has matched:
\* m are its groups, sd the digits of the winner's seed, wt the win type and
\* its bonus, pn the ordinal of a placement match. A key the returned dict
\* does not hold is None (strings) or 0 (numbers).
MatchInfo(match_text, current_weight, round_info, is_placement_match, m, sd, wt, pn) ==
    LET common == [parsed |-> TRUE,
                   winner_name |-> Strip(m.g1),
                   winner_school |-> Strip(m.g2),
                   winner_seed |-> IF sd = "" THEN None ELSE "#" \o sd,
                   winner_seed_num |-> IF sd = "" THEN 0 ELSE ToInt(sd),
                   loser_name |-> Strip(m.g4),
                   loser_school |-> Strip(m.g5),
                   weight |-> current_weight,
                   bonus_points |-> wt[2],
                   match_text |-> match_text]
        sv  == Contains("(SV-1", match_text) \/ Contains(" SV-1 ", match_text)
        tb  == Contains("(TB-1", match_text) \/ Contains(" TB-1 ", match_text)
        adv == IF round_info # 0 THEN ROUND_MAPPING[round_info].advancement_points
               ELSE 2
    IN  IF is_placement_match
        THEN common @@
             [is_placement_match |-> TRUE,
              bracket |-> None,
              full_round |-> None,
              winner_placement |-> IF pn \in {1, 3, 5, 7} THEN pn ELSE 0,
              loser_placement |-> IF pn \in {1, 3, 5, 7} THEN pn + 1 ELSE 0,
              win_type |-> wt[1],
              win_type_full |-> Strip(m.g3),
              advancement_points |-> 0,
              total_points |-> wt[2]]
        ELSE common @@
             [is_placement_match |-> FALSE,
              bracket |-> IF round_info # 0 THEN ROUND_MAPPING[round_info].bracket
                          ELSE "Champ",
              full_round |-> IF round_info # 0
                             THEN ROUND_MAPPING[round_info].full_round
                             ELSE "Unknown",
              winner_placement |-> 0,
              loser_placement |-> 0,
              win_type |-> IF sv THEN "SV" ELSE IF tb THEN "TB" ELSE wt[1],
              win_type_full |-> IF sv THEN "sudden victory"
                                ELSE IF tb THEN "tie breaker" ELSE Strip(m.g3),
              advancement_points |-> adv,
              total_points |-> adv + wt[2]]

\* _parse_match_with_pattern, lines 124-149, on the groups m of the pattern
ParseMatchGroups(match_text, current_weight, round_info, is_placement_match, m) ==
    IF ~m.ok THEN NoMatchInfo
    ELSE MatchInfo(match_text, current_weight, round_info, is_placement_match, m,
                   SeedDigits(match_text),
                   ParseWinType(Strip(m.g3), match_text),
                   PlacementNum(match_text))

\* _parse_match_with_pattern; round_info is an index of ROUND_MAPPING or 0
ParseMatchWithPattern(match_text, current_weight, round_info, is_placement_match) ==
    ParseMatchGroups(match_text, current_weight, round_info, is_placement_match,
                     MatchGroups(match_text))

\* parse_match_result, given the module global current_section as already
\* updated by GlobalSectionAfter
parse_match_result(match_text, current_weight, section) ==
    ParseMatchWithPattern(match_text, current_weight,
                          RoundInfo(match_text, section),
                          Contains("Place Match", match_text))

----------------------------------------------------------------------------
(* parsers/placement_parser.py                                             *)

NoPlacementInfo == [parsed |-> FALSE]

\* parse_placement_line: the leftmost match of
\* (\d+)(?:st|nd|rd|th):\s+(.*?)\s+\((.*?)\)
parse_placement_line(line, current_weight) ==
    LET I == {i \in 1..Len(line) :
                LET d == DigitRun(line, i)
                IN  /\ d > 0
                    /\ Slice(line, i + d, i + d + 1) \in {"st", "nd", "rd", "th"}
                    /\ CharAt(line, i + d + 2) = ":"
                    /\ CharAt(line, i + d + 3) = " "
                    /\ LET p == Find(" (", line, i + d + 4)
                       IN  p # 0 /\ Find(")", line, p + 2) # 0}
    IN  IF I = {} THEN NoPlacementInfo
        ELSE LET i == MinOf(I)
                 d == DigitRun(line, i)
                 p == Find(" (", line, i + d + 4)
                 c == Find(")", line, p + 2)
             IN  [parsed |-> TRUE,
                  placement |-> ToInt(Slice(line, i, i + d - 1)),
                  wrestler_name |-> Strip(Slice(line, i + d + 4, p - 1)),
                  wrestler_school |-> Strip(Slice(line, p + 2, c - 1)),
                  weight |-> current_weight]

----------------------------------------------------------------------------
(* A Python dict is a sequence of [key, val] entries in insertion order.   *)

DictHas(d, k) == \E i \in 1..Len(d) : d[i].key = k

DictGet(d, k) == d[FirstIndex(d, LAMBDA e : e.key = k)].val

\* d[k] = v: an existing key keeps its position
DictSet(d, k, v) ==
    IF DictHas(d, k)
    THEN [i \in 1..Len(d) |-> IF d[i].key = k THEN [key |-> k, val |-> v] ELSE d[i]]
    ELSE Append(d, [key |-> k, val |-> v])

DictKeys(d) == {d[i].key : i \in 1..Len(d)}

----------------------------------------------------------------------------
(* processors/wrestler_matcher.py                                          *)

\* name.split()[-1] if name else ""
LastWord(name) == LET w == Split(name) IN IF w = <<>> THEN "" ELSE w[Len(w)]

\* lines 37-47: is_problematic
IsProblematic(original_name) ==
    \E i \in 1..Len(PROBLEM_WRESTLERS) :
        Contains(Lower(PROBLEM_WRESTLERS[i]), Lower(original_name))

\* lines 50-63: the record stored for one drafted wrestler
WrestlerData(w) ==
    [team |-> w.team, weight |-> w.weight, seed |-> w.seed, seed_num |-> w.seed_num,
     name |-> w.name, school |-> w.school,
     std_name |-> standardize_wrestler_name(w.name),
     std_school |-> standardize_text(w.school)]

\* lines 68-84: the keys one drafted wrestler adds to wrestler_lookup
AddWrestlerKeys(lookup, w) ==
    LET data == WrestlerData(w)
        l1   == DictSet(lookup, <<data.std_name, data.std_school>>, data)
        l2   == IF DictHas(l1, <<data.std_name, "">>) THEN l1
                ELSE DictSet(l1, <<data.std_name, "">>, data)
        alt  == <<LastWord(data.std_name), data.std_school>>
    IN  IF DictHas(l2, alt) THEN l2 ELSE DictSet(l2, alt, data)

\* build_wrestler_lookup: wrestler_lookup after the wrestlers drafted[1..n]
RECURSIVE WrestlerLookup(_, _)
WrestlerLookup(drafted, n) ==
    IF n = 0 THEN <<>>
    ELSE AddWrestlerKeys(WrestlerLookup(drafted, n - 1), drafted[n])

\* build_wrestler_lookup, lines 86-91: weight_seed_lookup; the first wrestler
\* of a (weight, seed) pair stays
RECURSIVE WeightSeedLookup(_, _)
WeightSeedLookup(drafted, n) ==
    IF n = 0 THEN <<>>
    ELSE LET prev == WeightSeedLookup(drafted, n - 1)
             w    == drafted[n]
             k    == <<w.weight, w.seed_num>>
         IN  IF w.weight # "" /\ w.seed_num # 0
                /\ (~DictHas(prev, k) \/ w.seed_num < DictGet(prev, k).seed_num)
             THEN DictSet(prev, k, WrestlerData(w))
             ELSE prev

\* build_wrestler_lookup, lines 36-47: problem_wrestler_info, keyed by the
\* drafted name
RECURSIVE ProblemWrestlerInfo(_, _)
ProblemWrestlerInfo(drafted, n) ==
    IF n = 0 THEN <<>>
    ELSE LET prev == ProblemWrestlerInfo(drafted, n - 1)
             w    == drafted[n]
         IN  IF IsProblematic(w.name)
             THEN DictSet(prev, w.name, [team |-> w.team, weight |-> w.weight,
                                         seed |-> w.seed, school |-> w.school])
             ELSE prev

NoData == [found |-> FALSE]

\* get_wrestler_data, lines 146-157: the direct override. The result is the
\* first entry of wrestler_lookup with the override's name and school.
DirectOverride(name, wrestler_lookup) ==
    LET o == FirstIndex(DIRECT_NAME_OVERRIDES, LAMBDA e : e[1] = Lower(name))
        i == IF o = 0 THEN 0
             ELSE FirstIndex(wrestler_lookup,
                     LAMBDA e : e.val.name = DIRECT_NAME_OVERRIDES[o][2]
                                /\ e.val.school = DIRECT_NAME_OVERRIDES[o][3])
    IN  IF i = 0 THEN NoData ELSE wrestler_lookup[i].val

\* lines 152-153 rebind the parameter wrestler_key to the keys of
\* wrestler_lookup: after an override that found nobody it is no longer
\* 'winner' or 'loser'
RoleAfterOverride(wrestler_key, name, wrestler_lookup) ==
    IF FirstIndex(DIRECT_NAME_OVERRIDES, LAMBDA e : e[1] = Lower(name)) # 0
       /\ wrestler_lookup # <<>>
    THEN "<lookup key>" ELSE wrestler_key

\* last names compared after stemming
LastNamesMatchStemmed(wrestler_parts, match_parts) ==
    standardize_wrestler_name(wrestler_parts[Len(wrestler_parts)])
        = standardize_wrestler_name(match_parts[Len(match_parts)])

\* lines 172-183: is_match of one problem wrestler against the name of the line
LastNamesMatch(wrestler_parts, match_parts) ==
    wrestler_parts[Len(wrestler_parts)] = match_parts[Len(match_parts)]

ProblemIsMatch(wrestler_name_prob, info, wrestler_name, weight) ==
    LET std_wrestler       == standardize_text(wrestler_name_prob)
        std_match_wrestler == standardize_text(wrestler_name)
        wrestler_parts     == Split(std_wrestler)
        match_parts        == Split(std_match_wrestler)
    IN  IF std_wrestler = std_match_wrestler THEN TRUE
        ELSE IF weight # None /\ weight # "" /\ info.weight # ""
                /\ weight = info.weight
                /\ LastNamesMatch(wrestler_parts, match_parts) THEN TRUE
        ELSE /\ Len(wrestler_parts) > 1 /\ Len(match_parts) > 1
             /\ wrestler_parts[1] = match_parts[1]
             /\ LastNamesMatch(wrestler_parts, match_parts)

\* lines 177-178 index wrestler_parts[-1] and match_parts[-1]: an IndexError
\* when the weights agree and one of the names has no word
ProblemRaises(wrestler_name_prob, info, wrestler_name, weight) ==
    /\ standardize_text(wrestler_name_prob) # standardize_text(wrestler_name)
    /\ weight # None /\ weight # "" /\ info.weight # "" /\ weight = info.weight
    /\ (Split(standardize_text(wrestler_name_prob)) = <<>>
        \/ Split(standardize_text(wrestler_name)) = <<>>)

\* a weight and seed fallback that does not look at the role
WeightSeedAppliesAnyRole(weight, seed_num, role, weight_seed_lookup) ==
    /\ weight # None /\ weight # "" /\ seed_num # 0
    /\ DictHas(weight_seed_lookup, <<weight, seed_num>>)

\* lines 217-219: the weight and seed fallback is tried for the winner only
WeightSeedApplies(weight, seed_num, role, weight_seed_lookup) ==
    /\ weight # None /\ weight # "" /\ seed_num # 0 /\ role = "winner"
    /\ DictHas(weight_seed_lookup, <<weight, seed_num>>)

\* line 144: the seed of the wrestler asked for, 0 for None; the dicts of
\* match_parser hold no 'loser_seed_num'
SeedNumOf(match_info, wrestler_key) ==
    IF wrestler_key = "winner" THEN match_info.winner_seed_num
    ELSE IF "loser_seed_num" \in DOMAIN match_info THEN match_info.loser_seed_num
    ELSE 0

\* get_wrestler_data: [found, data, match_method], or [raised |-> TRUE]
get_wrestler_data(match_info, wrestler_key, wrestler_lookup, weight_seed_lookup, problem_wrestler_info) ==
    LET wrestler_name   == IF wrestler_key = "winner" THEN match_info.winner_name
                           ELSE match_info.loser_name
        wrestler_school == IF wrestler_key = "winner" THEN match_info.winner_school
                           ELSE match_info.loser_school
        name      == standardize_text(wrestler_name)
        school    == standardize_text(wrestler_school)
        last_name == LastWord(name)
        weight    == match_info.weight
        seed_num  == SeedNumOf(match_info, wrestler_key)
        override  == DirectOverride(name, wrestler_lookup)
        role      == RoleAfterOverride(wrestler_key, name, wrestler_lookup)
        hit(e)    == ProblemIsMatch(e.key, e.val, wrestler_name, weight)
        bad(e)    == ProblemRaises(e.key, e.val, wrestler_name, weight)
        pm        == FirstIndex(problem_wrestler_info, LAMBDA e : bad(e) \/ hit(e))
        Found(data, method) == [found |-> TRUE, data |-> data, match_method |-> method]
    IN  IF override # NoData THEN Found(override, "name_override")
        ELSE IF pm # 0 /\ bad(problem_wrestler_info[pm]) THEN [raised |-> TRUE]
        ELSE IF pm # 0
        THEN Found([team |-> problem_wrestler_info[pm].val.team,
                    weight |-> problem_wrestler_info[pm].val.weight,
                    seed |-> problem_wrestler_info[pm].val.seed,
                    name |-> problem_wrestler_info[pm].key,
                    school |-> problem_wrestler_info[pm].val.school], "problem_list")
        ELSE IF DictHas(wrestler_lookup, <<name, school>>)
        THEN Found(DictGet(wrestler_lookup, <<name, school>>), "full_name")
        ELSE IF DictHas(wrestler_lookup, <<name, "">>)
        THEN Found(DictGet(wrestler_lookup, <<name, "">>), "name_only")
        ELSE IF DictHas(wrestler_lookup, <<last_name, school>>)
        THEN Found(DictGet(wrestler_lookup, <<last_name, school>>), "last_name")
        ELSE IF WeightSeedApplies(weight, seed_num, role, weight_seed_lookup)
        THEN Found(DictGet(weight_seed_lookup, <<weight, seed_num>>), "weight_seed")
        ELSE NoData

----------------------------------------------------------------------------
(* processors/scorer.py                                                    *)

\* a placement round known by the label of its table entry only
IsPlacementRoundByLabel(round_type) ==
    \/ Contains("3rd Place", round_type)
    \/ Contains("5th Place", round_type)
    \/ Contains("7th Place", round_type)

\* lines 113-128: which component of a result one of its matches feeds
IsPlacementRound(round_type) ==
    \/ round_type = "Placement"
    \/ Contains("3rd Place", round_type)
    \/ Contains("5th Place", round_type)
    \/ Contains("7th Place", round_type)

IsChampRound(round_type) ==
    /\ ~IsPlacementRound(round_type)
    /\ (StartsWith(round_type, "Champ")
        \/ round_type \in {"Prelim", "Quarters", "Semis", "Finals"})

IsConsRound(round_type) ==
    /\ ~IsPlacementRound(round_type)
    /\ ~IsChampRound(round_type)
    /\ StartsWith(round_type, "Cons")

\* sum(seq) for a sequence of numbers
RECURSIVE SumSeq(_)
SumSeq(seq) == IF seq = <<>> THEN 0 ELSE seq[1] + SumSeq(Tail(seq))

\* the sum of f(m) over the matches m that satisfy P
SumMatches(matches, P(_), f(_)) ==
    SumSeq([i \in 1..Len(matches) |-> IF P(matches[i]) THEN f(matches[i]) ELSE 0])

AdvancementOf(match) ==
    IF match.advancement_points > 0 THEN match.advancement_points ELSE 0

BonusOf(match) == match.bonus_points

\* a total that leaves the placement points out
TotalOfBrackets(result) ==
    result.champ_advancement + result.champ_bonus + result.cons_advancement
    + result.cons_bonus

\* lines 137-143: the total of a result is the sum of its five components
TotalOf(result) ==
    result.champ_advancement + result.champ_bonus + result.cons_advancement
    + result.cons_bonus + result.placement_points

\* a final pass that adds the bonus of the placement matches to the stored
\* consolation bonus instead of the recomputed one
RecalculateOnTop(result) ==
    LET placement_bonus == SumMatches(result.matches,
                               LAMBDA m : IsPlacementRound(m.round), BonusOf)
        r == [result EXCEPT !.cons_bonus = result.cons_bonus + placement_bonus]
    IN  [r EXCEPT !.total_points = TotalOf(r)]

\* lines 101-143: the final pass over one result
Recalculate(result) ==
    LET champ_adv == SumMatches(result.matches,
                        LAMBDA m : IsChampRound(m.round), AdvancementOf)
        champ_bonus == SumMatches(result.matches,
                        LAMBDA m : IsChampRound(m.round), BonusOf)
        cons_adv == SumMatches(result.matches,
                        LAMBDA m : IsConsRound(m.round), AdvancementOf)
        cons_bonus == SumMatches(result.matches,
                        LAMBDA m : IsConsRound(m.round), BonusOf)
        placement_bonus == SumMatches(result.matches,
                        LAMBDA m : IsPlacementRound(m.round), BonusOf)
        r == [result EXCEPT !.champ_advancement = champ_adv,
                            !.champ_bonus = champ_bonus,
                            !.cons_advancement = cons_adv,
                            !.cons_bonus = cons_bonus + placement_bonus]
    IN  [r EXCEPT !.total_points = TotalOf(r)]

\* lines 74-87: the result a placement without a result of its own goes to:
\* the first result whose id contains the placed name or the placed school
FuzzyTarget(wrestler_results, placement_data) ==
    FirstIndex(wrestler_results,
               LAMBDA e : Contains(placement_data.name, e.key)
                          \/ Contains(placement_data.school, e.key))

\* lines 61-90: one step of the first pass
AssignOne(wrestler_results, wrestler_id, placement_data) ==
    LET i == IF DictHas(wrestler_results, wrestler_id)
             THEN FirstIndex(wrestler_results, LAMBDA e : e.key = wrestler_id)
             ELSE FuzzyTarget(wrestler_results, placement_data)
    IN  IF i = 0 THEN wrestler_results
        ELSE [wrestler_results EXCEPT
                 ![i].val.placement = placement_data.placement,
                 ![i].val.placement_points = placement_data.points]

\* lines 61-90: the first pass over wrestler_placements[1..n]
RECURSIVE AssignPlacements(_, _, _)
AssignPlacements(wrestler_results, wrestler_placements, n) ==
    IF n = 0 THEN wrestler_results
    ELSE AssignOne(AssignPlacements(wrestler_results, wrestler_placements, n - 1),
                   wrestler_placements[n].key, wrestler_placements[n].val)

\* lines 93-98: the special fix (4.0 points are 8 half points)
SpecialFix(e) ==
    IF Contains("Caleb Smith", e.key) /\ Contains("Nebraska", e.key)
    THEN [e EXCEPT !.val.placement = 7, !.val.placement_points = 8]
    ELSE e

\* assign_placement_points: wrestler_results as the call leaves it
assign_placement_points(wrestler_results, wrestler_placements) ==
    LET a == AssignPlacements(wrestler_results, wrestler_placements,
                              Len(wrestler_placements))
    IN  [i \in 1..Len(a) |->
            [key |-> a[i].key, val |-> Recalculate(SpecialFix(a[i]).val)]]

----------------------------------------------------------------------------
(* processors/results_processor.py                                         *)

\* the pattern of lines 104, 116, 162 and 174: a weight class indicator
WeightMarkers == WEIGHT_CLASSES \cup {"DH"}

\* lines 104 and 162: no hyphen and not a weight class
IsSectionLine(line) == ~Contains("-", line) /\ line \notin WeightMarkers

\* lines 106-113 and 164-171: current_section after a line of that kind
SectionAfterLine(current_section, line) ==
    IF \E i \in 1..Len(ROUND_MAPPING) : Contains(ROUND_MAPPING[i].name, line)
    THEN line ELSE current_section

\* f"{name} ({school})"
WrestlerId(name, school) == name \o " (" \o school \o ")"

\* the value stored in wrestler_placements (lines 133-139, 204-210, 216-222)
PlacementRecord(name, school, weight, placement) ==
    [name |-> name, school |-> school, weight |-> weight,
     placement |-> placement, points |-> PlacementPoints(placement)]

\* lines 98-141, one line of the first pass: [current_weight, wrestler_placements]
FirstPassLine(st, line) ==
    LET placement_info == parse_placement_line(line, st.current_weight)
        wrestler_key   == WrestlerId(placement_info.wrestler_name,
                                     placement_info.wrestler_school)
    IN  IF line = "" \/ IsSectionLine(line) THEN st
        ELSE IF line \in WeightMarkers THEN [st EXCEPT !.current_weight = line]
        ELSE IF placement_info.parsed
                /\ ~DictHas(st.wrestler_placements, wrestler_key)
        THEN [st EXCEPT !.wrestler_placements =
                 DictSet(@, wrestler_key,
                         PlacementRecord(placement_info.wrestler_name,
                                         placement_info.wrestler_school,
                                         placement_info.weight,
                                         placement_info.placement))]
        ELSE st

\* lines 96-151: the first pass over the lines 1..n of the text
RECURSIVE FirstPass(_, _)
FirstPass(lines, n) ==
    IF n = 0 THEN [current_weight |-> None, wrestler_placements |-> <<>>]
    ELSE FirstPassLine(FirstPass(lines, n - 1), lines[n])

\* lines 200-223: the placement records a placement match writes
PlacementMatchRecords(wrestler_placements, match_info) ==
    LET w == IF match_info.is_placement_match /\ match_info.winner_placement # 0
             THEN DictSet(wrestler_placements,
                          WrestlerId(match_info.winner_name, match_info.winner_school),
                          PlacementRecord(match_info.winner_name,
                                          match_info.winner_school,
                                          match_info.weight,
                                          match_info.winner_placement))
             ELSE wrestler_placements
    IN  IF match_info.is_placement_match /\ match_info.loser_placement # 0
        THEN DictSet(w, WrestlerId(match_info.loser_name, match_info.loser_school),
                     PlacementRecord(match_info.loser_name, match_info.loser_school,
                                     match_info.weight, match_info.loser_placement))
        ELSE w

\* match_info['full_round'] if 'full_round' in match_info else 'Placement'
RoundOf(match_info) ==
    IF match_info.full_round # None THEN match_info.full_round ELSE "Placement"

\* lines 258-273: a result as it is created; placement 0 is None
NewResult(data) ==
    [owner |-> data.team, weight |-> data.weight, seed |-> data.seed,
     champ_wins |-> 0, champ_advancement |-> 0, champ_bonus |-> 0,
     cons_wins |-> 0, cons_advancement |-> 0, cons_bonus |-> 0,
     placement |-> 0, placement_points |-> 0, total_points |-> 0,
     match_count |-> 0, matches |-> <<>>]

\* lines 278-287
MatchDetail(match_info, match_method) ==
    [round |-> RoundOf(match_info),
     opponent |-> WrestlerId(match_info.loser_name, match_info.loser_school),
     result |-> match_info.win_type,
     win_type_full |-> match_info.win_type_full,
     advancement_points |-> match_info.advancement_points,
     bonus_points |-> match_info.bonus_points,
     total_points |-> match_info.total_points,
     match_method |-> match_method]

\* a credit that goes by the bracket alone: a win that is not of the
\* championship bracket counts as a consolation win
CreditWinByBracket(result, match_info, match_method) ==
    LET r == [result EXCEPT
                 !.matches = Append(@, MatchDetail(match_info, match_method)),
                 !.match_count = @ + 1]
    IN  IF match_info.bracket = "Champ"
        THEN [r EXCEPT !.champ_wins = @ + 1,
                       !.champ_advancement = (r.champ_wins + 1) * 2,
                       !.champ_bonus = @ + match_info.bonus_points,
                       !.total_points = @ + match_info.total_points]
        ELSE [r EXCEPT !.cons_wins = @ + 1,
                       !.cons_advancement = (r.cons_wins + 1) * 1,
                       !.cons_bonus = @ + match_info.bonus_points,
                       !.total_points = @ + match_info.total_points]

\* lines 288-306: the winner's result after the match; 1.0 is 2 half points
CreditWin(result, match_info, match_method) ==
    LET r == [result EXCEPT
                 !.matches = Append(@, MatchDetail(match_info, match_method)),
                 !.match_count = @ + 1]
    IN  IF match_info.is_placement_match
        THEN [r EXCEPT !.total_points = @ + match_info.bonus_points]
        ELSE IF match_info.bracket = "Champ"
        THEN [r EXCEPT !.champ_wins = @ + 1,
                       !.champ_advancement = (r.champ_wins + 1) * 2,
                       !.champ_bonus = @ + match_info.bonus_points,
                       !.total_points = @ + match_info.total_points]
        ELSE [r EXCEPT !.cons_wins = @ + 1,
                       !.cons_advancement = (r.cons_wins + 1) * 1,
                       !.cons_bonus = @ + match_info.bonus_points,
                       !.total_points = @ + match_info.total_points]

\* a credit for the wrestlers who have a result already, and for no other
WinnerResultsOfKnown(wrestler_results, winner, match_info) ==
    LET wrestler_id == WrestlerId(winner.data.name, winner.data.school)
    IN  IF DictHas(wrestler_results, wrestler_id)
        THEN DictSet(wrestler_results, wrestler_id,
                     CreditWin(DictGet(wrestler_results, wrestler_id), match_info,
                               winner.match_method))
        ELSE wrestler_results

\* lines 249-306: wrestler_results after the winner of a match was found
WinnerResults(wrestler_results, winner, match_info) ==
    LET wrestler_id == WrestlerId(winner.data.name, winner.data.school)
        result      == IF DictHas(wrestler_results, wrestler_id)
                       THEN DictGet(wrestler_results, wrestler_id)
                       ELSE NewResult(winner.data)
    IN  DictSet(wrestler_results, wrestler_id,
                CreditWin(result, match_info, winner.match_method))

\* lines 66-75: round_results as initialised from all_wrestlers
RECURSIVE InitialRoundResults(_, _)
InitialRoundResults(all_wrestlers, n) ==
    IF n = 0 THEN <<>>
    ELSE DictSet(InitialRoundResults(all_wrestlers, n - 1),
                 WrestlerId(all_wrestlers[n].name, all_wrestlers[n].school),
                 [Owner |-> all_wrestlers[n].team,
                  Weight |-> all_wrestlers[n].weight,
                  Wrestler |-> all_wrestlers[n].name,
                  School |-> all_wrestlers[n].school,
                  Seed |-> all_wrestlers[n].seed,
                  rounds |-> <<>>])

\* lines 309-317 and 353-364: one cell of the round-by-round table
SetRound(round_results, found, match_info, text) ==
    LET wrestler_id == WrestlerId(found.data.name, found.data.school)
    IN  IF found.found /\ DictHas(round_results, wrestler_id)
        THEN DictSet(round_results, wrestler_id,
                     [DictGet(round_results, wrestler_id) EXCEPT
                         !.rounds = DictSet(@, RoundOf(match_info), text)])
        ELSE round_results

\* lines 312-317
WinText(match_info) == "W-" \o match_info.win_type

\* a cell for the loser that reads like the winner's
LossTextAsWin(match_info) == "W-" \o match_info.win_type

\* lines 356-362
LossText(match_info) ==
    IF match_info.win_type \in {"SV", "TB"} THEN "L-" \o match_info.win_type ELSE "L"

\* lines 324-333
Mismatch(match_info) ==
    [winner_name |-> match_info.winner_name,
     winner_school |-> match_info.winner_school,
     weight |-> match_info.weight,
     seed |-> match_info.winner_seed,
     win_type |-> match_info.win_type,
     win_type_full |-> match_info.win_type_full,
     points |-> match_info.total_points,
     match_text |-> match_info.match_text]

----------------------------------------------------------------------------
(* The three DataFrames parse_wrestling_results returns                    *)

\* the characters of the model's texts in code point order
CharOrder == " #()-.0123456789:ABCDEFGHIJKLMNOPQRSTUVWXYZabcdefghijklmnopqrstuvwxyz"

\* a < b for two Python strings
RECURSIVE StrLess(_, _)
StrLess(a, b) ==
    IF b = "" THEN FALSE
    ELSE IF a = "" THEN TRUE
    ELSE IF SubSeq(a, 1, 1) = SubSeq(b, 1, 1)
    THEN StrLess(SubSeq(a, 2, Len(a)), SubSeq(b, 2, Len(b)))
    ELSE Find(SubSeq(a, 1, 1), CharOrder, 1) < Find(SubSeq(b, 1, 1), CharOrder, 1)

\* a stable sort of seq by the strict order Less
SortBy(seq, Less(_, _)) ==
    LET n == Len(seq)
        rank(i) == 1 + Cardinality({j \in 1..n :
                          \/ Less(seq[j], seq[i])
                          \/ (~Less(seq[i], seq[j]) /\ j < i)})
    IN  [k \in 1..n |-> seq[CHOOSE i \in 1..n : rank(i) = k]]

\* group 1 of the leftmost match of #?(\d+), "" when there is none
FirstDigits(text) ==
    LET I == {i \in 1..Len(text) : IsDigit(CharAt(text, i))}
    IN  IF I = {} THEN ""
        ELSE Slice(text, MinOf(I), MinOf(I) + DigitRun(text, MinOf(I)) - 1)

\* utils/text_utils.py, extract_seed_number; 0 for None
extract_seed_number(seed_text) ==
    IF seed_text = None \/ FirstDigits(seed_text) = "" THEN 0
    ELSE ToInt(FirstDigits(seed_text))

\* lines 404-409: results_df, one row per result, sorted by owner and weight
ResultsFrame(wrestler_results) ==
    SortBy([i \in 1..Len(wrestler_results) |->
               [Wrestler |-> wrestler_results[i].key] @@ wrestler_results[i].val],
           LAMBDA a, b : \/ StrLess(a.owner, b.owner)
                         \/ (a.owner = b.owner /\ StrLess(a.weight, b.weight)))

\* lines 436-439: the categories of the Weight column, in order
WeightCategories ==
    <<"125", "133", "141", "149", "157", "165", "174", "184", "197", "285", "DH">>

\* the position of a weight among the categories; other values sort last
WeightRank(weight) ==
    LET i == FirstIndex(WeightCategories, LAMBDA c : c = weight)
    IN  IF i = 0 THEN Len(WeightCategories) + 1 ELSE i

\* lines 440-443: Seed_Num
SeedNum(seed) ==
    IF seed = None \/ FirstDigits(seed) = "" THEN 999 ELSE ToInt(FirstDigits(seed))

\* lines 419-435: the rounds seen, the known ones first, in the report's order
RoundCategories ==
    <<"Prelim", "Pig Tails", "Champ. R1", "Champ. R2", "Quarters", "Semis",
      "Finals", "Cons. Pig Tails", "Cons. R1", "Cons. R2", "Cons. R3",
      "Cons. R4", "Cons. R5", "Cons. Semis", "3rd Place", "5th Place",
      "7th Place">>

\* the columns of round_df: the union of the keys of its rows, in order of
\* first appearance
RECURSIVE RoundColumns(_, _)
RoundColumns(round_results, n) ==
    IF n = 0 THEN <<>>
    ELSE LET prev == RoundColumns(round_results, n - 1)
             new  == SelectSeq([i \in 1..Len(round_results[n].val.rounds) |->
                                   round_results[n].val.rounds[i].key],
                               LAMBDA c : \A k \in 1..Len(prev) : prev[k] # c)
         IN  prev \o new

\* lines 411-463: round_df as [columns, rows]; a missing cell is "NaN"
RoundFrame(round_results, all_rounds) ==
    LET columns   == RoundColumns(round_results, Len(round_results))
        available == SelectSeq(columns, LAMBDA c : c \in all_rounds)
        known     == SelectSeq(RoundCategories,
                               LAMBDA c : \E k \in 1..Len(available) : available[k] = c)
        other     == SelectSeq(available,
                               LAMBDA c : \A k \in 1..Len(known) : known[k] # c)
        placement == IF \E k \in 1..Len(columns) : columns[k] = "Placement"
                     THEN <<"Placement">> ELSE <<>>
        cols      == known \o other \o placement
        sorted    == SortBy(round_results,
                        LAMBDA a, b :
                            \/ WeightRank(a.val.Weight) < WeightRank(b.val.Weight)
                            \/ (WeightRank(a.val.Weight) = WeightRank(b.val.Weight)
                                /\ SeedNum(a.val.Seed) < SeedNum(b.val.Seed)))
        Cell(row, c) == IF DictHas(row.rounds, c) THEN DictGet(row.rounds, c)
                        ELSE "NaN"
    IN  [columns |-> <<"Weight", "Wrestler", "School", "Seed", "Owner">> \o cols,
         rows |-> [i \in 1..Len(sorted) |->
                     [Weight |-> sorted[i].val.Weight,
                      Wrestler |-> sorted[i].val.Wrestler,
                      School |-> sorted[i].val.School,
                      Seed |-> sorted[i].val.Seed,
                      Owner |-> sorted[i].val.Owner,
                      rounds |-> [k \in 1..Len(cols) |-> Cell(sorted[i].val, cols[k])]]]]

\* lines 465-468: placements_df
PlacementsFrame(wrestler_placements) ==
    [i \in 1..Len(wrestler_placements) |->
        [Wrestler_ID |-> wrestler_placements[i].key] @@ wrestler_placements[i].val]

\* lines 479-485, and main.py lines 62-66: three empty DataFrames
EmptyFrames ==
    [results_df |-> <<>>, round_df |-> [columns |-> <<>>, rows |-> <<>>],
     placements_df |-> <<>>]

\* lines 404-476. DataFrame.sort_values(['owner', 'weight']) raises KeyError on
\* the frame of an empty wrestler_results, which has no such columns; the
\* except clause then returns the empty frames
Frames(wrestler_results, round_results, all_rounds, wrestler_placements) ==
    IF wrestler_results = <<>> THEN EmptyFrames
    ELSE [results_df |-> ResultsFrame(wrestler_results),
          round_df |-> RoundFrame(round_results, all_rounds),
          placements_df |-> PlacementsFrame(wrestler_placements)]

----------------------------------------------------------------------------
(* scorer.py, calculate_team_points                                         *)

\* the row of an owner with total_advancement the championship advancement only
TeamRowChampOnly(rows, owner) ==
    LET mine == SelectSeq(rows, LAMBDA r : r.owner = owner)
    IN  [owner |-> owner,
         champ_wins |-> SumSeq([i \in 1..Len(mine) |-> mine[i].champ_wins]),
         champ_advancement |-> SumSeq([i \in 1..Len(mine) |-> mine[i].champ_advancement]),
         champ_bonus |-> SumSeq([i \in 1..Len(mine) |-> mine[i].champ_bonus]),
         cons_wins |-> SumSeq([i \in 1..Len(mine) |-> mine[i].cons_wins]),
         cons_advancement |-> SumSeq([i \in 1..Len(mine) |-> mine[i].cons_advancement]),
         cons_bonus |-> SumSeq([i \in 1..Len(mine) |-> mine[i].cons_bonus]),
         placement_points |-> SumSeq([i \in 1..Len(mine) |-> mine[i].placement_points]),
         total_points |-> SumSeq([i \in 1..Len(mine) |-> mine[i].total_points]),
         Wrestlers_with_Points |-> Len(mine),
         total_advancement |-> SumSeq([i \in 1..Len(mine) |-> mine[i].champ_advancement]),
         total_bonus |-> SumSeq([i \in 1..Len(mine) |-> mine[i].champ_bonus])
                         + SumSeq([i \in 1..Len(mine) |-> mine[i].cons_bonus])]

\* lines 28-44: the row of an owner, the sums of the columns of his wrestlers,
\* their count, and the two derived columns
TeamRow(rows, owner) ==
    LET mine == SelectSeq(rows, LAMBDA r : r.owner = owner)
    IN  [owner |-> owner,
         champ_wins |-> SumSeq([i \in 1..Len(mine) |-> mine[i].champ_wins]),
         champ_advancement |-> SumSeq([i \in 1..Len(mine) |-> mine[i].champ_advancement]),
         champ_bonus |-> SumSeq([i \in 1..Len(mine) |-> mine[i].champ_bonus]),
         cons_wins |-> SumSeq([i \in 1..Len(mine) |-> mine[i].cons_wins]),
         cons_advancement |-> SumSeq([i \in 1..Len(mine) |-> mine[i].cons_advancement]),
         cons_bonus |-> SumSeq([i \in 1..Len(mine) |-> mine[i].cons_bonus]),
         placement_points |-> SumSeq([i \in 1..Len(mine) |-> mine[i].placement_points]),
         total_points |-> SumSeq([i \in 1..Len(mine) |-> mine[i].total_points]),
         Wrestlers_with_Points |-> Len(mine),
         total_advancement |-> SumSeq([i \in 1..Len(mine) |-> mine[i].champ_advancement])
                               + SumSeq([i \in 1..Len(mine) |-> mine[i].cons_advancement]),
         total_bonus |-> SumSeq([i \in 1..Len(mine) |-> mine[i].champ_bonus])
                         + SumSeq([i \in 1..Len(mine) |-> mine[i].cons_bonus])]

\* lines 28-38: groupby('owner') makes one row per owner, the owners in
\* ascending order
GroupedTeams(results_df) ==
    LET owners == {results_df[i].owner : i \in 1..Len(results_df)}
    IN  [k \in 1..Cardinality(owners) |->
            TeamRow(results_df,
                    CHOOSE o \in owners :
                        Cardinality({q \in owners : StrLess(q, o)}) = k - 1)]

\* line 45: sort_values('total_points', ascending=False) sorts with the default
\* kind 'quicksort', which is not a stable sort: the rows come out by
\* descending total, rows of equal total in any order
SortedDescending(rows) ==
    {s \in [1..Len(rows) -> {rows[i] : i \in 1..Len(rows)}] :
        /\ \A i, j \in 1..Len(rows) : i # j => s[i] # s[j]
        /\ \A i, j \in 1..Len(rows) :
               i < j => s[i].total_points >= s[j].total_points}

\* lines 19-20: a frame with no columns has no 'champ_wins': KeyError
TeamPointsRaises(results_df) == results_df = <<>>

\* lines 8-47: the standings calculate_team_points can return
calculate_team_points(results_df) == SortedDescending(GroupedTeams(results_df))

----------------------------------------------------------------------------
(* The scoring run: main.py calls build_wrestler_lookup and then           *)
(* parse_wrestling_results; app.py calls main again in the same process.   *)

VARIABLES
    drafted,               \* the roster, flattened in the dict's order (all_wrestlers)
    results_text,          \* results_text.split('\n'), each line stripped
    wrestler_lookup, weight_seed_lookup, problem_wrestler_info,
    pc,                    \* the position of the run
    line_no,               \* the line the second pass is at
    current_section,       \* the local of parse_wrestling_results
    current_weight,
    parser_section,        \* match_parser.current_section, the module global
    wrestler_results, wrestler_placements, round_results, all_rounds,
    matches_processed, matches_found, matches_missed, mismatches,
    raised,                \* an exception reached the except clause
    output,                \* what the run returned
    run,                   \* the number of the run in this process
    finalizations,         \* the calls of assign_placement_points in this run
    first_output,          \* what the first run of the process returned
    query, answer,         \* one call of get_wrestler_data and its result
    team_summary,          \* the standings calculate_team_points returned
    main_result            \* how main ended: what it returned, or an exception

vars ==
    << drafted, results_text, wrestler_lookup, weight_seed_lookup,
       problem_wrestler_info, pc, line_no, current_section, current_weight,
       parser_section, wrestler_results, wrestler_placements, round_results,
       all_rounds, matches_processed, matches_found, matches_missed, mismatches,
       raised, output, run, finalizations, first_output, query, answer,
       team_summary, main_result >>

inputs == << drafted, results_text >>
lookups == << wrestler_lookup, weight_seed_lookup, problem_wrestler_info >>
locals ==
    << line_no, current_section, current_weight, wrestler_results,
       wrestler_placements, round_results, all_rounds, matches_processed,
       matches_found, matches_missed, mismatches >>
resolver == << query, answer >>
standings == << team_summary, main_result >>

\* the bounds of the model
MaxLines == 3
MaxRuns == 2
MaxFinalizations == 2

\* a drafted wrestler as data_loader.load_draft_data builds it
Drafted(team, weight, name, school, seed) ==
    [team |-> team, weight |-> weight, name |-> name, school |-> school,
     seed |-> seed, seed_num |-> extract_seed_number(seed)]

Roster ==
    << Drafted("Team A", "125", "Jane Doe", "State U", "#1"),
       Drafted("Team B", "125", "John Roe", "Tech", "#2") >>

\* the lines a result text for Roster is made of
Lines ==
    { "125",
      "Consolation Pig Tails",
      "Prelim - Jane Doe (State U) won by fall over John Roe (Tech)",
      "Pig Tails - John Roe (Tech) won by decision over Jane Doe (State U)",
      "3rd Place Match - Jane Doe (State U) won by major decision over Sam Poe (State U)",
      "1st Place Match - Jane Doe (State U) won by decision over John Roe (Tech)",
      "1st: Jane Doe (State U)",
      "125 - 2nd: Jane Doe (State U)" }

\* two wrestlers whose names differ by the spelling of the surname only
Thompson == Drafted("Team A", "125", "John Thompson", "State U", "#1")
Thomson == Drafted("Team B", "125", "John Thomson", "Tech", "#2")

ThompsonWins ==
    "Champ. Round 1 - John Thompson (State U) won by decision over John Thomson (Tech)"
ThomsonWins ==
    "Cons. Round 2 - John Thomson (Tech) won by fall over John Thompson (State U)"

\* the lines a result text for the two of them is made of
TwinLines == {"125", ThompsonWins, ThomsonWins}

\* a roster with a wrestler of the problem list, and lines with a winner who
\* is not drafted, one of them with no name for the loser
SmithRoster ==
    << Drafted("Team A", "125", "Bob Smith", "Iowa", "#3"),
       Drafted("Team B", "125", "John Roe", "Tech", "#2") >>

RoeWins == "Champ. Round 1 - John Roe (Tech) won by fall over Sam Poe (Ohio)"
PoeWins == "Champ. Round 1 - Sam Poe (Ohio) won by decision over Bob Smith (Iowa)"
NamelessLoser == "Champ. Round 1 - Sam Poe (Ohio) won by decision over  (Tech)"

SmithLines ==
    { "125", RoeWins, PoeWins, NamelessLoser,
      "Champ. Round 1 - Al Smith (Ohio) won by fall over Bob Smith (Iowa)" }

\* a roster with two wrestlers on one team, and wins for each of the three
LeagueRoster ==
    << Drafted("Team A", "125", "Jane Doe", "State U", "#1"),
       Drafted("Team A", "133", "Ann Lee", "Ohio", "#4"),
       Drafted("Team B", "125", "John Roe", "Tech", "#2") >>

LeagueLines ==
    { "Quarterfinal - Jane Doe (State U) won by decision over Sam Poe (Iowa)",
      "Quarterfinal - John Roe (Tech) won by decision over Sam Poe (Iowa)",
      "Cons. Round 1 - Ann Lee (Ohio) won by fall over Sam Poe (Iowa)",
      "Pig Tails - John Roe (Tech) won by fall over Sam Poe (Iowa)",
      "3rd Place Match - Ann Lee (Ohio) won by major decision over Sam Poe (Iowa)" }

\* the rosters and the lines of their result texts
Scenarios ==
    { [roster |-> Roster, lines |-> Lines],
      [roster |-> <<Thompson, Thomson>>, lines |-> TwinLines],
      [roster |-> <<Thomson, Thompson>>, lines |-> TwinLines],
      [roster |-> SmithRoster, lines |-> SmithLines],
      [roster |-> LeagueRoster, lines |-> LeagueLines] }

\* the texts of at most MaxLines lines
Texts(lines) == UNION {[1..n -> lines] : n \in 1..MaxLines}

NoQuery == [asked |-> FALSE]

\* main has not ended
NoReturn == [returned |-> FALSE]

\* the state of a process that has not run yet
Fresh ==
    /\ wrestler_lookup = <<>> /\ weight_seed_lookup = <<>>
    /\ problem_wrestler_info = <<>>
    /\ line_no = 0 /\ current_section = None /\ current_weight = None
    /\ parser_section = None
    /\ wrestler_results = <<>> /\ wrestler_placements = <<>>
    /\ round_results = <<>> /\ all_rounds = {}
    /\ matches_processed = 0 /\ matches_found = 0 /\ matches_missed = 0
    /\ mismatches = <<>>
    /\ raised = FALSE /\ output = EmptyFrames /\ first_output = EmptyFrames
    /\ run = 1 /\ finalizations = 0
    /\ team_summary = <<>> /\ main_result = NoReturn

Init ==
    /\ \E sc \in Scenarios :
           /\ drafted = sc.roster
           /\ results_text \in Texts(sc.lines)
    /\ pc = "main"
    /\ query = NoQuery /\ answer = NoData
    /\ Fresh

\* main.py line 53: build_wrestler_lookup
BuildLookup ==
    /\ pc = "main"
    /\ wrestler_lookup' = WrestlerLookup(drafted, Len(drafted))
    /\ weight_seed_lookup' = WeightSeedLookup(drafted, Len(drafted))
    /\ problem_wrestler_info' = ProblemWrestlerInfo(drafted, Len(drafted))
    /\ pc' = "pass1"
    /\ UNCHANGED << inputs, locals, parser_section, raised, output, run,
                    finalizations, first_output, resolver, standings >>

\* parse_wrestling_results, lines 34-155: the locals are created, the first
\* pass collects the declared placements, the second pass starts
FirstPassRun ==
    /\ pc = "pass1"
    /\ wrestler_results' = <<>>
    /\ wrestler_placements' =
           FirstPass(results_text, Len(results_text)).wrestler_placements
    /\ round_results' = InitialRoundResults(drafted, Len(drafted))
    /\ all_rounds' = {}
    /\ matches_processed' = 0 /\ matches_found' = 0 /\ matches_missed' = 0
    /\ mismatches' = <<>>
    /\ current_section' = None /\ current_weight' = None
    /\ line_no' = 1
    /\ pc' = "pass2"
    /\ UNCHANGED << inputs, lookups, parser_section, raised, output, run,
                    finalizations, first_output, resolver, standings >>

\* the result of get_wrestler_data is an exception
Raised(r) == "raised" \in DOMAIN r

\* lines 479-485: the except clause; the locals of the run are gone
Except ==
    /\ raised' = TRUE
    /\ output' = EmptyFrames
    /\ first_output' = IF run = 1 THEN EmptyFrames ELSE first_output
    /\ pc' = "done"

\* the second pass goes on to the next line
NextLine ==
    /\ line_no' = line_no + 1
    /\ UNCHANGED << pc, raised, output, first_output >>

\* lines 197-366: a parsed match, its winner and its loser as get_wrestler_data
\* resolved them
ProcessMatch(match_info, winner, loser) ==
    IF Raised(winner) \/ Raised(loser)
    THEN /\ Except
         /\ line_no' = 0
         /\ wrestler_results' = <<>> /\ wrestler_placements' = <<>>
         /\ round_results' = <<>> /\ all_rounds' = {}
         /\ matches_processed' = 0 /\ matches_found' = 0
         /\ matches_missed' = 0 /\ mismatches' = <<>>
         /\ current_section' = None /\ current_weight' = None
    ELSE /\ NextLine
         /\ matches_processed' = matches_processed + 1
         /\ wrestler_placements' =
                PlacementMatchRecords(wrestler_placements, match_info)
         /\ all_rounds' = IF match_info.full_round # None
                          THEN all_rounds \cup {match_info.full_round}
                          ELSE all_rounds
         /\ wrestler_results' =
                IF winner.found
                THEN WinnerResults(wrestler_results, winner, match_info)
                ELSE wrestler_results
         /\ matches_found' = matches_found + (IF winner.found THEN 1 ELSE 0)
         /\ matches_missed' = matches_missed + (IF winner.found THEN 0 ELSE 1)
         /\ mismatches' = IF winner.found THEN mismatches
                          ELSE Append(mismatches, Mismatch(match_info))
         /\ round_results' =
                SetRound(SetRound(round_results, winner, match_info,
                                  WinText(match_info)),
                         loser, match_info, LossText(match_info))
         /\ UNCHANGED << current_section, current_weight >>

\* a skip that counts the line as a processed match
SkipLineCounted ==
    /\ NextLine
    /\ matches_processed' = matches_processed + 1
    /\ UNCHANGED << current_section, current_weight,
                    wrestler_results, wrestler_placements,
                    round_results, all_rounds,
                    matches_found, matches_missed, mismatches >>

\* lines 180-195: parse_match_result returned None; the line is logged and
\* the loop continues
SkipLine ==
    /\ NextLine
    /\ UNCHANGED << current_section, current_weight,
                    wrestler_results, wrestler_placements,
                    round_results, all_rounds, matches_processed,
                    matches_found, matches_missed, mismatches >>

\* lines 179-196: the line as parse_match_result parsed it
ParsedLine(match_info) ==
    IF ~match_info.parsed
    THEN SkipLine
    ELSE ProcessMatch(match_info,
                      get_wrestler_data(match_info, "winner", wrestler_lookup,
                                        weight_seed_lookup, problem_wrestler_info),
                      get_wrestler_data(match_info, "loser", wrestler_lookup,
                                        weight_seed_lookup, problem_wrestler_info))

\* lines 156-179: a line that is neither blank, a section header nor a weight
\* class goes to parse_match_result, which first updates its module global
MatchLine(line, section) ==
    /\ parser_section' = section
    /\ ParsedLine(parse_match_result(line, current_weight, section))

\* lines 156-366: one line of the second pass
SecondPassLine ==
    /\ pc = "pass2"
    /\ line_no <= Len(results_text)
    /\ IF results_text[line_no] = ""
       THEN /\ NextLine
            /\ UNCHANGED << current_section, current_weight, parser_section,
                            wrestler_results, wrestler_placements,
                            round_results, all_rounds, matches_processed,
                            matches_found, matches_missed, mismatches >>
       ELSE IF IsSectionLine(results_text[line_no])
       THEN /\ NextLine
            /\ current_section' =
                   SectionAfterLine(current_section, results_text[line_no])
            /\ UNCHANGED << current_weight, parser_section,
                            wrestler_results, wrestler_placements,
                            round_results, all_rounds, matches_processed,
                            matches_found, matches_missed, mismatches >>
       ELSE IF results_text[line_no] \in WeightMarkers
       THEN /\ NextLine
            /\ current_weight' = results_text[line_no]
            /\ UNCHANGED << current_section, parser_section,
                            wrestler_results, wrestler_placements,
                            round_results, all_rounds, matches_processed,
                            matches_found, matches_missed, mismatches >>
       ELSE MatchLine(results_text[line_no],
                      GlobalSectionAfter(current_section, parser_section))
    /\ UNCHANGED << inputs, lookups, run, finalizations, resolver, standings >>

\* lines 394-476: assign_placement_points and the conversion to DataFrames
Finalize ==
    /\ pc = "pass2"
    /\ line_no > Len(results_text)
    /\ wrestler_results' = assign_placement_points(wrestler_results, wrestler_placements)
    /\ finalizations' = 1
    /\ raised' = (wrestler_results = <<>>)
    /\ output' = Frames(wrestler_results', round_results, all_rounds,
                        wrestler_placements)
    /\ first_output' = IF run = 1 THEN output' ELSE first_output
    /\ pc' = "done"
    /\ UNCHANGED << inputs, lookups, line_no, current_section, current_weight,
                    parser_section, wrestler_placements, round_results,
                    all_rounds, matches_processed, matches_found,
                    matches_missed, mismatches, run, resolver, standings >>

\* assign_placement_points called once more on the results and the placement
\* records the first call left
Refinalize ==
    /\ pc = "done"
    /\ finalizations >= 1
    /\ finalizations < MaxFinalizations
    /\ wrestler_results' = assign_placement_points(wrestler_results, wrestler_placements)
    /\ finalizations' = finalizations + 1
    /\ UNCHANGED << inputs, lookups, pc, line_no, current_section,
                    current_weight, parser_section, wrestler_placements,
                    round_results, all_rounds, matches_processed,
                    matches_found, matches_missed, mismatches, raised, output,
                    run, first_output, resolver, standings >>

\* main.py lines 56-98: parse_wrestling_results has returned; main calls
\* calculate_team_points on results_df outside any try, writes the reports and
\* returns the three frames
MainReturns ==
    /\ pc = "done"
    /\ pc' = "returned"
    /\ IF TeamPointsRaises(output.results_df)
       THEN /\ team_summary' = <<>>
            /\ main_result' = [returned |-> TRUE, raised |-> TRUE]
       ELSE /\ team_summary' \in calculate_team_points(output.results_df)
            /\ main_result' = [returned |-> TRUE, raised |-> FALSE, frames |-> output]
    /\ UNCHANGED << inputs, lookups, locals, parser_section, raised, output,
                    run, finalizations, first_output, resolver >>

\* app.py line 73: main runs again in the same process on the same files;
\* the module global of match_parser is all that is left of the run before
Rerun ==
    /\ pc = "returned"
    /\ run < MaxRuns
    /\ run' = run + 1
    /\ pc' = "main"
    /\ wrestler_lookup' = <<>> /\ weight_seed_lookup' = <<>>
    /\ problem_wrestler_info' = <<>>
    /\ line_no' = 0 /\ current_section' = None /\ current_weight' = None
    /\ wrestler_results' = <<>> /\ wrestler_placements' = <<>>
    /\ round_results' = <<>> /\ all_rounds' = {}
    /\ matches_processed' = 0 /\ matches_found' = 0 /\ matches_missed' = 0
    /\ mismatches' = <<>>
    /\ raised' = FALSE /\ output' = EmptyFrames /\ finalizations' = 0
    /\ team_summary' = <<>> /\ main_result' = NoReturn
    /\ UNCHANGED << inputs, parser_section, first_output, resolver >>

Next ==
    \/ BuildLookup
    \/ FirstPassRun
    \/ SecondPassLine
    \/ Finalize
    \/ Refinalize
    \/ MainReturns
    \/ Rerun

Spec == Init /\ [][Next]_vars

----------------------------------------------------------------------------
(* One call of get_wrestler_data on the lookup tables of a roster          *)

\* the longest roster of the calls
MaxRoster == 2

People ==
    { Drafted("Team A", "125", "Jane Doe", "State U", "#1"),
      Drafted("Team A", "125", "Bob Smith", "Iowa", "#3"),
      Drafted("Team B", "125", "Al Smith", "Ohio", "#4"),
      Drafted("Team B", "125", "John Thomson", "Iowa", "#5"),
      Drafted("Team B", "133", "Garrett Thomson", "Ohio", "#2") }

\* the rosters of distinct wrestlers, those of a team next to each other as
\* the dict of the draft lists them
Rosters ==
    {r \in UNION {[1..n -> People] : n \in 1..MaxRoster} :
        /\ \A i, j \in 1..Len(r) : i # j => r[i] # r[j]
        /\ \A i, j, k \in 1..Len(r) :
               (i < j /\ j < k /\ r[i].team = r[k].team) => r[j].team = r[i].team}

\* the calls: the wrestler asked for is the winner or the loser of the match
Queries ==
    { [asked |-> TRUE, wrestler_key |-> key,
       match_info |->
           [winner_name |-> IF key = "winner" THEN name ELSE "Zed Who",
            winner_school |-> IF key = "winner" THEN school ELSE "Nowhere",
            loser_name |-> IF key = "loser" THEN name ELSE "Zed Who",
            loser_school |-> IF key = "loser" THEN school ELSE "Nowhere",
            weight |-> weight, winner_seed_num |-> seed_num,
            loser_seed_num |-> IF key = "loser" THEN seed_num ELSE 0]] :
        key \in {"winner", "loser"},
        name \in {"Jane Doe", "Bob Smith", "Al Smith", "John Thomson", "John Thompson",
                  "Garrett Thompson"},
        school \in {"State U", "Iowa", "Ohio"},
        weight \in {None, "125"},
        seed_num \in {0, 3} }

InitResolve ==
    /\ drafted \in Rosters
    /\ results_text = <<>>
    /\ query \in Queries
    /\ answer = NoData
    /\ pc = "main"
    /\ Fresh

\* wrestler_matcher.py lines 117-230: get_wrestler_data on the tables built
Resolve ==
    /\ pc = "pass1"
    /\ query.asked
    /\ answer' = get_wrestler_data(query.match_info, query.wrestler_key,
                                   wrestler_lookup, weight_seed_lookup,
                                   problem_wrestler_info)
    /\ pc' = "resolved"
    /\ UNCHANGED << inputs, lookups, locals, parser_section, raised, output,
                    run, finalizations, first_output, query, standings >>

NextResolve ==
    \/ BuildLookup
    \/ Resolve

SpecResolve == InitResolve /\ [][NextResolve]_vars

\* the name and the school the call asks for
AskedName ==
    IF query.wrestler_key = "winner" THEN query.match_info.winner_name
    ELSE query.match_info.loser_name

AskedSchool ==
    IF query.wrestler_key = "winner" THEN query.match_info.winner_school
    ELSE query.match_info.loser_school

\* the answer is the drafted wrestler w
Answers(w) ==
    /\ ~Raised(answer)
    /\ answer.found
    /\ answer.data.name = w.name
    /\ answer.data.school = w.school
    /\ answer.data.team = w.team

\* C8: a call for the winner of a match whose winner has the exact name and
\* school of a drafted wrestler returns that wrestler by the method "full_name".
C8_ExactNameIsFullName ==
    pc = "resolved" =>
        \A k \in 1..Len(drafted) :
            (/\ query.wrestler_key = "winner"
             /\ AskedName = drafted[k].name
             /\ AskedSchool = drafted[k].school)
            => Answers(drafted[k]) /\ answer.match_method = "full_name"

\* the name with the other spelling of its surname, None when the surname is
\* none of thomson, thompson, keuter, kueter
OtherSpelling(name) ==
    LET last  == LastWord(name)
        first == Slice(name, 1, Len(name) - Len(last))
    IN  CASE last = "Thomson" -> first \o "Thompson"
          [] last = "Thompson" -> first \o "Thomson"
          [] last = "Keuter" -> first \o "Kueter"
          [] last = "Kueter" -> first \o "Keuter"
          [] OTHER -> None

\* C9: a call with the other spelling of the surname of a drafted wrestler, and
\* his school, returns that wrestler.
C9_OtherSpellingResolves ==
    pc = "resolved" =>
        \A k \in 1..Len(drafted) :
            (/\ AskedName = OtherSpelling(drafted[k].name)
             /\ AskedSchool = drafted[k].school)
            => Answers(drafted[k])

\* the rules of the cascade in the order of the claim: the method each one
\* reports
RuleMethods ==
    << "name_override", "problem_list", "full_name", "name_only", "last_name",
       "weight_seed" >>

\* the problem wrestler the name asked for matches first, 0 when none
ProblemHit ==
    FirstIndex(problem_wrestler_info,
               LAMBDA e : ProblemIsMatch(e.key, e.val, AskedName,
                                         query.match_info.weight))

\* rule k has an entry for the call
RuleApplies(k) ==
    LET name   == standardize_text(AskedName)
        school == standardize_text(AskedSchool)
    IN  CASE k = 1 -> DirectOverride(name, wrestler_lookup) # NoData
          [] k = 2 -> ProblemHit # 0
          [] k = 3 -> DictHas(wrestler_lookup, <<name, school>>)
          [] k = 4 -> DictHas(wrestler_lookup, <<name, "">>)
          [] k = 5 -> DictHas(wrestler_lookup, <<LastWord(name), school>>)
          [] k = 6 -> WeightSeedApplies(query.match_info.weight,
                                        SeedNumOf(query.match_info, query.wrestler_key),
                                        query.wrestler_key, weight_seed_lookup)

\* the name, the school and the team of an entry
Who(data) == <<data.name, data.school, data.team>>

\* the entry rule k has for the call
RuleEntry(k) ==
    LET name   == standardize_text(AskedName)
        school == standardize_text(AskedSchool)
    IN  CASE k = 1 -> Who(DirectOverride(name, wrestler_lookup))
          [] k = 2 -> << problem_wrestler_info[ProblemHit].key,
                         problem_wrestler_info[ProblemHit].val.school,
                         problem_wrestler_info[ProblemHit].val.team >>
          [] k = 3 -> Who(DictGet(wrestler_lookup, <<name, school>>))
          [] k = 4 -> Who(DictGet(wrestler_lookup, <<name, "">>))
          [] k = 5 -> Who(DictGet(wrestler_lookup, <<LastWord(name), school>>))
          [] k = 6 -> Who(DictGet(weight_seed_lookup,
                                  << query.match_info.weight,
                                     SeedNumOf(query.match_info, query.wrestler_key) >>))

\* C21: a call returns the entry and the method of the first rule, in the order
\* override, problem list, (name, school), name only, last name and school,
\* weight and seed, that has an entry for it, and a failure only when no rule
\* has one.
C21_FirstRuleWins ==
    pc = "resolved" =>
        LET R == {k \in 1..6 : RuleApplies(k)}
        IN  IF R = {} THEN answer = NoData
            ELSE /\ ~Raised(answer)
                 /\ answer.found
                 /\ answer.match_method = RuleMethods[MinOf(R)]
                 /\ Who(answer.data) = RuleEntry(MinOf(R))

\* C22: a call for the loser of a match never returns an entry by the method
\* "weight_seed".
C22_LoserNeverByWeightSeed ==
    (pc = "resolved" /\ query.wrestler_key = "loser")
        => ~(~Raised(answer) /\ answer.found /\ answer.match_method = "weight_seed")

\* a call for a loser no rule before the last has an entry for, whose weight
\* and seed are a key of weight_seed_lookup: the call has returned a failure
C22_Witness ==
    /\ pc = "resolved"
    /\ query.wrestler_key = "loser"
    /\ \A k \in 1..5 : ~RuleApplies(k)
    /\ query.match_info.weight # None
    /\ DictHas(weight_seed_lookup,
               <<query.match_info.weight, SeedNumOf(query.match_info, "loser")>>)
    /\ answer = NoData

----------------------------------------------------------------------------
(* Calls of parse_match_result in one process                              *)

\* the calls of one behaviour
MaxCalls == 2

\* a result line of a bout of Jane Doe with John Roe
MatchLineText(label, method, suffix) ==
    label \o " - Jane Doe (State U) won by " \o method
          \o " over John Roe (Tech)" \o suffix

\* the label, the method and the text after the loser of the lines parsed
ParseInputs ==
    { [label |-> l, method |-> m, suffix |-> ""] :
        l \in {"Prelim", "Champ. Round 1", "Quarterfinal", "Bout 12",
               "Cons. Round 2", "Cons. Pig Tails", "Consolation Pig Tails",
               "Cons. Semi", "1st Place Match", "3rd Place Match",
               "5th Place Match", "7th Place Match"},
        m \in {"fall", "Fall", "major decision"} }
    \cup
    { [label |-> l, method |-> m, suffix |-> x] :
        l \in {"Champ. Round 1", "7th Place Match"},
        m \in {"decision", "major decision", "Major Decision", "tech fall",
               "forfeit", "sudden victory - 1"},
        x \in {"", " (SV-1 9-1)"} }

\* the section parse_wrestling_results passes: None before the first header
\* of the run, then the last header line it accepted
Sections ==
    {None, "Quarterfinals", "Cons. Round 1", "Consolation Pig Tails",
     "Cons. Pig Tails"}

InitParse ==
    /\ drafted = <<>>
    /\ results_text = <<>>
    /\ query = [asked |-> FALSE, calls |-> 0]
    /\ answer = NoMatchInfo
    /\ pc = "parser"
    /\ Fresh

\* match_parser.py lines 46-106: one call of parse_match_result; the module
\* global current_section stays as the call left it
ParseMatch ==
    /\ pc = "parser"
    /\ query.calls < MaxCalls
    /\ \E in \in ParseInputs, section \in Sections :
           /\ query' = [asked |-> TRUE, calls |-> query.calls + 1,
                        label |-> in.label, method |-> in.method,
                        suffix |-> in.suffix, section |-> section]
           /\ parser_section' = GlobalSectionAfter(section, parser_section)
           /\ answer' = parse_match_result(
                            MatchLineText(in.label, in.method, in.suffix),
                            "125", GlobalSectionAfter(section, parser_section))
    /\ UNCHANGED << inputs, lookups, locals, pc, raised, output, run,
                    finalizations, first_output, standings >>

NextParse == ParseMatch

SpecParse == InitParse /\ [][NextParse]_vars

\* the last call parsed its line
Parsed == query.asked /\ answer.parsed

\* the bonus of a win method, in half points
ImpliedBonus(win_type) ==
    CASE win_type = "Fall" -> 4
      [] win_type = "TF" -> 3
      [] win_type = "MD" -> 2
      [] win_type = "Def/DQ" -> 4
      [] OTHER -> 0

\* C15: the line of the last call and the line that differs from it by the
\* lower case of its method text get the same win method and the same bonus.
C15_MethodCaseInsensitive ==
    Parsed =>
        LET other == parse_match_result(
                         MatchLineText(query.label, Lower(query.method), query.suffix),
                         "125", parser_section)
        IN  /\ other.parsed
            /\ other.win_type = answer.win_type
            /\ other.bonus_points = answer.bonus_points

\* C16: the bonus of a parsed event is the bonus of its win method: 2.0 for
\* Fall and Def/DQ, 1.5 for TF, 1.0 for MD, and 0.0 for Dec, SV, TB and Other.
C16_BonusOfWinMethod ==
    Parsed => answer.bonus_points = ImpliedBonus(answer.win_type)

\* C17: a parsed line whose label is a consolation round of the round table is
\* an event of the consolation bracket with advancement 0.5.
C17_ConsolationLabel ==
    (Parsed /\ query.label \in {"Consolation Pig Tails", "Cons. Pig Tails",
                                "Cons. Round 2", "Cons. Semi"})
    => /\ ~answer.is_placement_match
       /\ answer.bracket = "Cons"
       /\ answer.advancement_points = 1

\* C18: a parsed line with the label of a placement match is a placement event
\* with the placements of its ordinal for the winner and the loser, advancement
\* 0.0 and the bonus of its win method.
C18_PlacementMatch ==
    \A n \in {1, 3, 5, 7} :
        (Parsed /\ query.label =
            <<"1st", "2nd", "3rd", "4th", "5th", "6th", "7th">>[n] \o " Place Match")
        => /\ answer.is_placement_match
           /\ answer.winner_placement = n
           /\ answer.loser_placement = n + 1
           /\ answer.advancement_points = 0
           /\ answer.bonus_points = ImpliedBonus(answer.win_type)
           /\ answer.total_points = answer.bonus_points

\* the 3rd place match won by major decision
C18_Witness ==
    /\ Parsed
    /\ query.label = "3rd Place Match" /\ query.method = "major decision"
    /\ answer.winner_placement = 3 /\ answer.loser_placement = 4
    /\ answer.advancement_points = 0 /\ answer.bonus_points = 2

\* C19: a parsed line with no round name, read in the section "Quarterfinals"
\* or "Cons. Round 1", is an event with the bracket, the label and the
\* advancement of the round of the section.
C19_SectionFallback ==
    \A hdr \in {<<"Quarterfinals", "Quarterfinal">>, <<"Cons. Round 1", "Cons. Round 1">>} :
        (Parsed /\ query.label = "Bout 12" /\ query.section = hdr[1])
        => /\ answer.bracket = ROUND_MAPPING[RoundKey(hdr[2])].bracket
           /\ answer.full_round = ROUND_MAPPING[RoundKey(hdr[2])].full_round
           /\ answer.advancement_points
                  = ROUND_MAPPING[RoundKey(hdr[2])].advancement_points

\* C20: a parsed line that begins with "Prelim -" is a consolation event with
\* advancement 0.5 when the section is "Consolation Pig Tails" or
\* "Cons. Pig Tails", and a championship event with advancement 1.0 otherwise.
C20_PrelimBySection ==
    (Parsed /\ query.label = "Prelim")
    => IF query.section \in {"Consolation Pig Tails", "Cons. Pig Tails"}
       THEN answer.bracket = "Cons" /\ answer.advancement_points = 1
       ELSE answer.bracket = "Champ" /\ answer.advancement_points = 2

----------------------------------------------------------------------------
(* Properties of the scoring run                                           *)

\* the line the second pass is at is a match line that parse_match_result parses
AtMatchLine ==
    /\ pc = "pass2"
    /\ line_no <= Len(results_text)
    /\ results_text[line_no] # ""
    /\ ~IsSectionLine(results_text[line_no])
    /\ results_text[line_no] \notin WeightMarkers
    /\ parse_match_result(results_text[line_no], current_weight,
                          GlobalSectionAfter(current_section, parser_section)).parsed

\* the match of the line the second pass is at
CurrentMatch ==
    parse_match_result(results_text[line_no], current_weight,
                       GlobalSectionAfter(current_section, parser_section))

\* get_wrestler_data finds no drafted wrestler for the winner of the match
WinnerUnresolved ==
    /\ AtMatchLine
    /\ get_wrestler_data(CurrentMatch, "winner", wrestler_lookup,
                         weight_seed_lookup, problem_wrestler_info) = NoData

\* the winner and the loser of the match as get_wrestler_data resolves them
WinnerOf ==
    get_wrestler_data(CurrentMatch, "winner", wrestler_lookup,
                      weight_seed_lookup, problem_wrestler_info)

LoserOf ==
    get_wrestler_data(CurrentMatch, "loser", wrestler_lookup,
                      weight_seed_lookup, problem_wrestler_info)

\* the second pass is at a match whose loser is a drafted wrestler
LoserResolved ==
    /\ AtMatchLine
    /\ ~Raised(WinnerOf) /\ ~Raised(LoserOf)
    /\ LoserOf.found

\* the table new is the table old but for the cell of the wrestler id in the
\* column col, which reads as one of texts
OnlyCellChanged(old, new, id, col, texts) ==
    /\ Len(new) = Len(old)
    /\ \A i \in 1..Len(old) :
          /\ new[i].key = old[i].key
          /\ old[i].key # id => new[i] = old[i]
          /\ old[i].key = id =>
                /\ [new[i].val EXCEPT !.rounds = <<>>] = [old[i].val EXCEPT !.rounds = <<>>]
                /\ DictKeys(new[i].val.rounds) = DictKeys(old[i].val.rounds) \cup {col}
                /\ DictGet(new[i].val.rounds, col) \in texts
                /\ \A k \in DictKeys(old[i].val.rounds) \ {col} :
                      DictGet(new[i].val.rounds, k) = DictGet(old[i].val.rounds, k)

\* C23: when the loser of a match is resolved, the results are those the
\* winner's side alone leaves (unchanged when the winner is not resolved), and
\* the round-by-round table is the one the winner's side leaves but for the
\* loser's cell in the round of the match, which reads "L" or "L-<method>".
C23_LoserGetsNoPoints ==
    [][LoserResolved =>
         /\ wrestler_results' = IF WinnerOf.found
                                THEN WinnerResults(wrestler_results, WinnerOf, CurrentMatch)
                                ELSE wrestler_results
         /\ OnlyCellChanged(SetRound(round_results, WinnerOf, CurrentMatch,
                                     WinText(CurrentMatch)),
                            round_results',
                            WrestlerId(LoserOf.data.name, LoserOf.data.school),
                            RoundOf(CurrentMatch),
                            {"L", "L-" \o CurrentMatch.win_type})]_vars

\* the second pass has given a drafted wrestler a loss, and no result
C23_Witness ==
    /\ pc = "pass2"
    /\ \E i \in 1..Len(round_results) :
          /\ \E j \in 1..Len(round_results[i].val.rounds) :
                round_results[i].val.rounds[j].val = "L"
          /\ ~DictHas(wrestler_results, round_results[i].key)

\* the rounds of the wins lines 297-301 count as championship wins: those of
\* the championship bracket of the round table, and the default round
ChampWinRounds ==
    {ROUND_MAPPING[i].full_round :
        i \in {j \in 1..Len(ROUND_MAPPING) : ROUND_MAPPING[j].bracket = "Champ"}}
    \cup {"Unknown"}

\* the rounds of the wins lines 302-306 count as consolation wins
ConsWinRounds ==
    {ROUND_MAPPING[i].full_round :
        i \in {j \in 1..Len(ROUND_MAPPING) : ROUND_MAPPING[j].bracket = "Cons"}}

\* C24: after finalization the championship bonus of every result is the sum of
\* the bonus points of its wins that were counted as championship wins, those
\* labelled Pig Tails or with the default round "Unknown" included.
C24_ChampBonusOfChampWins ==
    finalizations >= 1 =>
        \A i \in 1..Len(wrestler_results) :
            wrestler_results[i].val.champ_bonus =
                SumMatches(wrestler_results[i].val.matches,
                           LAMBDA m : m.round \in ChampWinRounds, BonusOf)

\* C25: after finalization the consolation bonus of every result is the sum of
\* the bonus points of its consolation wins and of its placement match wins,
\* and the championship bonus holds no bonus of a placement match.
C25_ConsBonusHoldsPlacementBonus ==
    finalizations >= 1 =>
        \A i \in 1..Len(wrestler_results) :
            LET r == wrestler_results[i].val
            IN  /\ r.cons_bonus =
                       SumMatches(r.matches, LAMBDA m : m.round \in ConsWinRounds, BonusOf)
                       + SumMatches(r.matches, LAMBDA m : m.round = "Placement", BonusOf)
                /\ r.champ_bonus <=
                       SumMatches(r.matches, LAMBDA m : m.round \in ChampWinRounds, BonusOf)

\* a finalized result with the bonus of a consolation win and of a placement
\* match win
C25_Witness ==
    /\ finalizations >= 1
    /\ \E i \in 1..Len(wrestler_results) :
          LET r == wrestler_results[i].val
          IN  /\ \E j \in 1..Len(r.matches) :
                     r.matches[j].round = "Placement" /\ r.matches[j].bonus_points > 0
              /\ \E j \in 1..Len(r.matches) :
                     r.matches[j].round \in ConsWinRounds /\ r.matches[j].bonus_points > 0
              /\ r.cons_bonus > 0

\* the second pass is at a placement match whose winner is a drafted wrestler
PlacementWin ==
    /\ AtMatchLine
    /\ CurrentMatch.is_placement_match
    /\ ~Raised(WinnerOf) /\ ~Raised(LoserOf)
    /\ WinnerOf.found

\* the result of the wrestler id before a step, a new one when there is none
ResultOf(id, data) ==
    IF DictHas(wrestler_results, id) THEN DictGet(wrestler_results, id)
    ELSE NewResult(data)

\* a result without its placement match wins
WithoutPlacementWins(r) ==
    [r EXCEPT !.matches = SelectSeq(@, LAMBDA m : m.round # "Placement")]

AtUnparsedLine ==
    /\ pc = "pass2"
    /\ line_no <= Len(results_text)
    /\ results_text[line_no] # ""
    /\ ~IsSectionLine(results_text[line_no])
    /\ results_text[line_no] \notin WeightMarkers
    /\ ~parse_match_result(results_text[line_no], current_weight,
                           GlobalSectionAfter(current_section, parser_section)).parsed

\* C27: the step of the second pass at a line the match pattern does not match
\* leaves the results, the placement records, the round-by-round table, the
\* mismatches and the three counters as they were, and the pass goes on with
\* the next line.
C27_UnparsedLineIsSkipped ==
    [][AtUnparsedLine =>
         /\ UNCHANGED << wrestler_results, wrestler_placements, round_results,
                         mismatches, matches_processed, matches_found,
                         matches_missed >>
         /\ pc' = "pass2"
         /\ line_no' = line_no + 1]_vars

\* the second pass has skipped a line the pattern does not match and has
\* processed a match of a later line
C27_Witness ==
    /\ pc = "pass2"
    /\ matches_processed > 0
    /\ \E k \in 1..Len(results_text) :
          /\ k + 1 < line_no
          /\ Contains("-", results_text[k])
          /\ ~parse_match_result(results_text[k], None, None).parsed
          /\ parse_match_result(results_text[k + 1], None, None).parsed

\* C28: after finalization a drafted wrestler who has a placement record and no
\* win has a result, with the rank of the record as its placement and the
\* points of the rank as its placement points and its total.
C28_PlacedWrestlerHasResult ==
    (pc = "done" /\ finalizations >= 1 /\ ~raised) =>
        \A k \in 1..Len(drafted) :
            LET id   == WrestlerId(drafted[k].name, drafted[k].school)
                wins == IF DictHas(wrestler_results, id)
                        THEN DictGet(wrestler_results, id).match_count ELSE 0
            IN  (DictHas(wrestler_placements, id) /\ wins = 0) =>
                    /\ DictHas(wrestler_results, id)
                    /\ DictGet(wrestler_results, id).placement =
                           DictGet(wrestler_placements, id).placement
                    /\ DictGet(wrestler_results, id).placement_points =
                           PlacementPoints(DictGet(wrestler_placements, id).placement)
                    /\ DictGet(wrestler_results, id).total_points =
                           PlacementPoints(DictGet(wrestler_placements, id).placement)

\* C29: the winner and the loser of a match whose names or schools differ are
\* never resolved to the same drafted wrestler.
C29_WinnerIsNotLoser ==
    (/\ AtMatchLine
     /\ ~Raised(WinnerOf) /\ ~Raised(LoserOf)
     /\ WinnerOf.found /\ LoserOf.found
     /\ <<CurrentMatch.winner_name, CurrentMatch.winner_school>>
            # <<CurrentMatch.loser_name, CurrentMatch.loser_school>>)
    => WrestlerId(WinnerOf.data.name, WinnerOf.data.school)
           # WrestlerId(LoserOf.data.name, LoserOf.data.school)

\* C30: during the second pass the processed matches are the found and the
\* missed ones, there is one mismatch for each missed match, and the match
\* counts of the results add up to the found matches.
C30_CountersAgree ==
    pc = "pass2" =>
        /\ matches_processed = matches_found + matches_missed
        /\ Len(mismatches) = matches_missed
        /\ SumSeq([i \in 1..Len(wrestler_results) |->
                      wrestler_results[i].val.match_count]) = matches_found

\* the second pass has found the winner of a match, of one wrestler twice or
\* of two wrestlers, and missed the winner of another
C30_Witness ==
    /\ pc = "pass2"
    /\ matches_found > 0
    /\ matches_missed > 0
    /\ matches_processed = 3

\* the results of the run, once assign_placement_points has been called
Results == {wrestler_results[i].val : i \in 1..Len(wrestler_results)}

\* C1: after finalization the total of every result is the sum of its
\* championship advancement, championship bonus, consolation advancement,
\* consolation bonus and placement points.
C1_TotalIsSumOfComponents ==
    finalizations >= 1 =>
        \A r \in Results :
            r.total_points = r.champ_advancement + r.champ_bonus
                             + r.cons_advancement + r.cons_bonus
                             + r.placement_points

\* a finalized result with bracket points and placement points
C1_Witness ==
    /\ finalizations >= 1
    /\ \E r \in Results :
          /\ r.placement_points > 0
          /\ r.champ_advancement > 0
          /\ r.cons_bonus > 0
          /\ r.total_points > r.placement_points

\* C2: a second call of assign_placement_points on the results and the
\* placement records the first call left changes no result: placement,
\* placement points, the four bracket components and the total stay as they are.
C2_FinalizationIdempotent ==
    [][(finalizations >= 1 /\ finalizations' = finalizations + 1)
           => wrestler_results' = wrestler_results]_vars

\* a second finalization of a result that holds placement points, some of
\* them taken from the record of a teammate, and the bonus of a placement match
C2_Witness ==
    /\ finalizations >= 2
    /\ \E i \in 1..Len(wrestler_results) :
          /\ wrestler_results[i].val.placement_points > 0
          /\ wrestler_results[i].val.cons_bonus > 0
          /\ DictHas(wrestler_placements, wrestler_results[i].key)
          /\ wrestler_results[i].val.placement
                 # DictGet(wrestler_placements, wrestler_results[i].key).placement

\* C3: a second run in the same process on the same text and roster returns
\* the per-wrestler results the first run returned.
C3_RunsAgree ==
    (pc = "done" /\ run >= 2) => output.results_df = first_output.results_df

\* C4: after finalization the championship advancement of every result is 1.0
\* per championship win and the consolation advancement 0.5 per consolation
\* win (2 and 1 half points).
C4_AdvancementFromWins ==
    finalizations >= 1 =>
        \A r \in Results :
            /\ r.champ_advancement = r.champ_wins * 2
            /\ r.cons_advancement = r.cons_wins * 1

\* C5: after finalization the placement and the placement points of a result
\* are those of the placement record of the same identity, and none when there
\* is no such record.
C5_OwnPlacementOnly ==
    finalizations >= 1 =>
        \A i \in 1..Len(wrestler_results) :
            LET e == wrestler_results[i]
            IN  IF DictHas(wrestler_placements, e.key)
                THEN /\ e.val.placement = DictGet(wrestler_placements, e.key).placement
                     /\ e.val.placement_points =
                            PlacementPoints(DictGet(wrestler_placements, e.key).placement)
                ELSE e.val.placement = 0 /\ e.val.placement_points = 0

\* C6: a line of the second pass leaves every placement record that exists
\* as it is.
C6_FirstWriterWins ==
    [][(pc = "pass2" /\ pc' = "pass2")
           => \A i \in 1..Len(wrestler_placements) :
                  /\ i <= Len(wrestler_placements')
                  /\ wrestler_placements'[i] = wrestler_placements[i]]_vars

\* C11: a match line whose winner is not resolved appends one entry to the
\* mismatch list, leaves every result as it is, and the second pass goes on to
\* the next line.
C11_UnresolvedWinnerIsLogged ==
    [][WinnerUnresolved
           => /\ mismatches' = Append(mismatches, Mismatch(CurrentMatch))
              /\ wrestler_results' = wrestler_results
              /\ pc' = "pass2"
              /\ line_no' = line_no + 1]_vars

\* C12: when parse_wrestling_results ended in its except clause, main returns
\* the three empty frames and raises nothing.
C12_FailureReturnsEmptyFrames ==
    (pc = "returned" /\ raised)
    => (~main_result.raised /\ main_result.frames = EmptyFrames)

\* the sum of the totals of the results of an owner
ResultsTotal(owner) ==
    SumSeq([i \in 1..Len(wrestler_results) |->
               IF wrestler_results[i].val.owner = owner
               THEN wrestler_results[i].val.total_points ELSE 0])

\* C13: every owner of a result has one row in the standings; its total is the
\* sum of the totals of his results, its total_advancement and total_bonus are
\* the championship plus the consolation values, and its total is
\* total_advancement + total_bonus + placement_points.
C13_TeamTotals ==
    (pc = "returned" /\ ~main_result.raised)
    => /\ \A i \in 1..Len(wrestler_results) :
              Cardinality({k \in 1..Len(team_summary) :
                  team_summary[k].owner = wrestler_results[i].val.owner}) = 1
       /\ \A k \in 1..Len(team_summary) :
              LET t == team_summary[k]
              IN  /\ t.total_points = ResultsTotal(t.owner)
                  /\ t.total_advancement = t.champ_advancement + t.cons_advancement
                  /\ t.total_bonus = t.champ_bonus + t.cons_bonus
                  /\ t.total_points = t.total_advancement + t.total_bonus
                                          + t.placement_points

\* standings of two teams, one of them with two wrestlers who have scored
\* advancement, bonus and placement points between them
C13_Witness ==
    /\ pc = "returned" /\ ~main_result.raised
    /\ Len(team_summary) = 2
    /\ \E k \in 1..2 :
          /\ team_summary[k].Wrestlers_with_Points = 2
          /\ team_summary[k].champ_advancement > 0
          /\ team_summary[k].cons_bonus > 0
          /\ team_summary[k].placement_points > 0

\* C14: the standings are in descending order of the total, and teams of equal
\* total are in the order of their rows before the sort, the order of groupby.
C14_StableDescendingOrder ==
    (pc = "returned" /\ ~main_result.raised)
    => \A i, j \in 1..Len(team_summary) :
           i < j => \/ team_summary[i].total_points > team_summary[j].total_points
                    \/ /\ team_summary[i].total_points = team_summary[j].total_points
                       /\ StrLess(team_summary[i].owner, team_summary[j].owner)

\* the line is a placement declaration as parse_placement_line reads it
Declares(line) == parse_placement_line(line, None).parsed

DeclaredId(line) ==
    WrestlerId(parse_placement_line(line, None).wrestler_name,
               parse_placement_line(line, None).wrestler_school)

DeclaredRank(line) == parse_placement_line(line, None).placement

\* C7: when the text declares a placement for an identity and later declares a
\* different rank for it, and no placement match is in the text, the run that
\* completes holds a placement record for the identity with the rank of its
\* first declaration.
C7_FirstDeclarationKept ==
    (/\ pc = "done" /\ ~raised
     /\ \A k \in 1..Len(results_text) : ~Contains("Place Match", results_text[k]))
    => \A i, j \in 1..Len(results_text) :
           (/\ i < j
            /\ Declares(results_text[i]) /\ Declares(results_text[j])
            /\ DeclaredId(results_text[i]) = DeclaredId(results_text[j])
            /\ DeclaredRank(results_text[i]) # DeclaredRank(results_text[j])
            /\ \A k \in 1..(i - 1) :
                   Declares(results_text[k])
                       => DeclaredId(results_text[k]) # DeclaredId(results_text[i]))
           => /\ DictHas(wrestler_placements, DeclaredId(results_text[i]))
              /\ DictGet(wrestler_placements, DeclaredId(results_text[i])).placement
                     = DeclaredRank(results_text[i])

\* the number of the lines of the text that are the line given
Occurrences(line) ==
    Cardinality({k \in 1..Len(results_text) : results_text[k] = line})

\* C10: with John Thompson (State U, Team A) and John Thomson (Tech, Team B)
\* both drafted at 125, the wins written with either name and school are in
\* the result of that wrestler, owned by his team, and in no other result.
C10_TwinsStayDistinct ==
    (finalizations >= 1 /\ drafted \in {<<Thompson, Thomson>>, <<Thomson, Thompson>>})
    => /\ \A i \in 1..Len(wrestler_results) :
              wrestler_results[i].key \in
                  {"John Thompson (State U)", "John Thomson (Tech)"}
       /\ DictHas(wrestler_results, "John Thompson (State U)")
              <=> Occurrences(ThompsonWins) > 0
       /\ DictHas(wrestler_results, "John Thomson (Tech)")
              <=> Occurrences(ThomsonWins) > 0
       /\ DictHas(wrestler_results, "John Thompson (State U)")
              => LET r == DictGet(wrestler_results, "John Thompson (State U)")
                 IN  /\ r.owner = "Team A"
                     /\ Len(r.matches) = Occurrences(ThompsonWins)
                     /\ \A k \in 1..Len(r.matches) :
                            /\ r.matches[k].opponent = "John Thomson (Tech)"
                            /\ r.matches[k].round = "Champ. R1"
       /\ DictHas(wrestler_results, "John Thomson (Tech)")
              => LET r == DictGet(wrestler_results, "John Thomson (Tech)")
                 IN  /\ r.owner = "Team B"
                     /\ Len(r.matches) = Occurrences(ThomsonWins)
                     /\ \A k \in 1..Len(r.matches) :
                            /\ r.matches[k].opponent = "John Thompson (State U)"
                            /\ r.matches[k].round = "Cons. R2"

\* both have won and the weight class of the matches is known
C10_Witness ==
    /\ finalizations >= 1
    /\ results_text[1] = "125"
    /\ DictHas(wrestler_results, "John Thompson (State U)")
    /\ DictHas(wrestler_results, "John Thomson (Tech)")
    /\ DictGet(wrestler_results, "John Thompson (State U)").owner = "Team A"
    /\ DictGet(wrestler_results, "John Thomson (Tech)").owner = "Team B"

====
